---- MODULE Spec2Model ----
(***************************************************************************)
(* Thermal-hydraulic network solver of the City Energy Analyst             *)
(* (cea/technologies/thermal_network/thermal_network_matrix_edited.py).    *)
(*                                                                         *)
(* Numbers.  The program computes with IEEE doubles; the model computes    *)
(* with integers in fixed units:                                           *)
(*   mass flow        1 unit = 1e-6 kg/s  (np.round(.., 5) rounds to 10)   *)
(*   temperature      1 unit = 0.01 K                                      *)
(*   conduction k     1 unit = cp/1000 * 1e-6 kW/K, so that the heat       *)
(*                    capacity rate m*cp/1000 of a flow of m units is m    *)
(* NaN is a value of its own and propagates as in IEEE arithmetic.         *)
(* Nodes and edges are numbered from 1 (the program numbers from 0).       *)
(*                                                                         *)
(* Specifications.                                                         *)
(*   Spec        thermal_network_main: the loop over the hours, with       *)
(*               solve_network_temperatures and the functions it calls     *)
(*   FairSpec    Spec, the program taking its next step whenever it has one *)
(*   SpecHyd     calc_mass_flow_edges and change_to_edge_node_matrix_t     *)
(*   SpecSupply  calc_supply_temperatures                                  *)
(***************************************************************************)
EXTENDS Integers, Sequences, FiniteSets, TLC

VARIABLES
    net,                \* the network read from the input files (index into Networks)
    network_type,       \* "DH" or "DC"
    edge_node_df,       \* the incidence matrix object owned by thermal_network_main
    edge_node_df_2,     \* the copy made in solve_network_temperatures (line 1233)
    cm,                 \* frame of calc_mass_flow_edges
    ch,                 \* frame of change_to_edge_node_matrix_t
    hy,                 \* driver of the hydraulic specification
    sp,                 \* frame of calc_supply_temperatures
    mn,                 \* frame of thermal_network_main
    sv,                 \* frame of solve_network_temperatures
    wk,                 \* frame of edge_mass_flow_iteration
    rp,                 \* frame of calc_return_temperatures
    fc,                 \* frame of a function called on its own
    printed             \* messages printed so far (a set of message tags)

vars == <<net, network_type, edge_node_df, edge_node_df_2, cm, ch, hy, sp, mn, sv, wk, rp, fc, printed>>

----------------------------------------------------------------------------
(* Floating point values: integers in fixed units, and NaN.                *)

NaN == -999999999

IsNaN(x) == x = NaN

FAdd(a, b) == IF IsNaN(a) \/ IsNaN(b) THEN NaN ELSE a + b

FSub(a, b) == IF IsNaN(a) \/ IsNaN(b) THEN NaN ELSE a - b

FMul(a, b) == IF IsNaN(a) \/ IsNaN(b) THEN NaN ELSE a * b

FNeg(a) == IF IsNaN(a) THEN NaN ELSE 0 - a

FAbs(a) == IF IsNaN(a) THEN NaN ELSE IF a < 0 THEN 0 - a ELSE a

\* comparisons with NaN are false
FLt(a, b) == ~IsNaN(a) /\ ~IsNaN(b) /\ a < b

FGt(a, b) == ~IsNaN(a) /\ ~IsNaN(b) /\ a > b

\* a / b rounded to the nearest unit (b > 0)
RoundDiv(a, b) == (a \div b) + (IF 2 * (a % b) >= b THEN 1 ELSE 0)

\* f itself, its values computed once (a function expression is otherwise
\* evaluated anew at each application; likewise the recursive operators
\* below hand on their arguments as values, CHOOSE .. \in {..} binding them)
Eager(f) == CHOOSE g \in {f} : g = g

RECURSIVE SumSet(_, _)
SumSet(f, S) ==
    IF S = {} THEN 0
    ELSE LET x == CHOOSE y \in S : TRUE
         IN  CHOOSE sum \in {f[x] + SumSet(f, T) : T \in {S \ {x}}} : TRUE

RECURSIVE FSumSet(_, _)
FSumSet(f, S) ==
    IF S = {} THEN 0
    ELSE LET x == CHOOSE y \in S : TRUE
         IN  CHOOSE sum \in {FAdd(f[x], FSumSet(f, T)) : T \in {S \ {x}}} : TRUE

\* np.round(x, decimals=5): to the nearest multiple of 1e-5 kg/s (10 units),
\* halves to the even neighbour; NaN stays NaN
Round5(x) ==
    IF IsNaN(x) THEN NaN
    ELSE LET q == x \div 10
             r == x % 10
         IN  IF r < 5 THEN 10 * q
             ELSE IF r > 5 THEN 10 * (q + 1)
             ELSE IF q % 2 = 0 THEN 10 * q ELSE 10 * (q + 1)

----------------------------------------------------------------------------
(* Networks: the node and pipe files of a scenario.                        *)

Networks == <<
    \* 1: plant - consumer, pipe stored plant -> consumer
    [nn |-> 2, ne |-> 1, start |-> <<1>>, end |-> <<2>>,
     type |-> <<"PLANT", "CONSUMER">>, cycles |-> <<>>],
    \* 2: plant - consumer, pipe stored consumer -> plant
    [nn |-> 2, ne |-> 1, start |-> <<2>>, end |-> <<1>>,
     type |-> <<"PLANT", "CONSUMER">>, cycles |-> <<>>],
    \* 3: star, two consumers joined at the plant
    [nn |-> 3, ne |-> 2, start |-> <<2, 2>>, end |-> <<1, 3>>,
     type |-> <<"CONSUMER", "PLANT", "CONSUMER">>, cycles |-> <<>>],
    \* 4: plant - junction - two consumers
    [nn |-> 4, ne |-> 3, start |-> <<1, 2, 2>>, end |-> <<2, 3, 4>>,
     type |-> <<"PLANT", "NONE", "CONSUMER", "CONSUMER">>, cycles |-> <<>>],
    \* 5: as 4, the pipe of the first consumer stored consumer -> junction
    [nn |-> 4, ne |-> 3, start |-> <<1, 3, 2>>, end |-> <<2, 2, 4>>,
     type |-> <<"PLANT", "NONE", "CONSUMER", "CONSUMER">>, cycles |-> <<>>],
    \* 6: two plants feeding one consumer between them
    [nn |-> 3, ne |-> 2, start |-> <<1, 3>>, end |-> <<2, 2>>,
     type |-> <<"PLANT", "CONSUMER", "PLANT">>, cycles |-> <<>>],
    \* 7: plant feeding a three-node ring with a consumer opposite
    [nn |-> 4, ne |-> 4, start |-> <<1, 2, 3, 2>>, end |-> <<2, 3, 4, 4>>,
     type |-> <<"PLANT", "NONE", "NONE", "CONSUMER">>,
     cycles |-> << <<2, 3, 4>> >>],
    \* 8: a consumer between the plant and a ring without substations, the
    \*    pipe of the plant stored consumer -> plant
    [nn |-> 4, ne |-> 4, start |-> <<2, 2, 3, 2>>, end |-> <<1, 3, 4, 4>>,
     type |-> <<"PLANT", "CONSUMER", "NONE", "NONE">>,
     cycles |-> << <<2, 3, 4>> >>],
    \* 9: plant feeding a ring whose pipes are stored head to tail, a
    \*    consumer on the ring
    [nn |-> 4, ne |-> 4, start |-> <<1, 2, 3, 4>>, end |-> <<2, 3, 4, 2>>,
     type |-> <<"PLANT", "NONE", "CONSUMER", "NONE">>,
     cycles |-> << <<2, 3, 4>> >>],
    \* 10: plant and three consumers in a row, behind the last consumer a
    \*     ring without substations, its pipes stored head to tail; the
    \*     first pipe of the file is the one into the ring
    [nn |-> 7, ne |-> 7, start |-> <<4, 1, 2, 3, 5, 6, 7>>, end |-> <<5, 2, 3, 4, 6, 7, 5>>,
     type |-> <<"PLANT", "CONSUMER", "CONSUMER", "CONSUMER", "NONE", "NONE", "NONE">>,
     cycles |-> << <<5, 6, 7>> >>],
    \* 11: plant - junction - three consumers in a row
    [nn |-> 5, ne |-> 4, start |-> <<1, 2, 3, 4>>, end |-> <<2, 3, 4, 5>>,
     type |-> <<"PLANT", "NONE", "CONSUMER", "CONSUMER", "CONSUMER">>, cycles |-> <<>>],
    \* 12: two plants and a consumer joined at a junction, the second plant
    \*     numbered after the junction
    [nn |-> 4, ne |-> 3, start |-> <<1, 4, 2>>, end |-> <<2, 2, 3>>,
     type |-> <<"PLANT", "NONE", "CONSUMER", "PLANT">>, cycles |-> <<>>],
    \* 13: as 12, both plants numbered before the junction
    [nn |-> 4, ne |-> 3, start |-> <<1, 2, 3>>, end |-> <<3, 3, 4>>,
     type |-> <<"PLANT", "PLANT", "NONE", "CONSUMER">>, cycles |-> <<>>],
    \* 14: plant - consumer, behind the consumer a ring without substations,
    \*     its pipes stored head to tail and before the pipe of the plant
    [nn |-> 4, ne |-> 4, start |-> <<2, 3, 4, 1>>, end |-> <<3, 4, 2, 2>>,
     type |-> <<"PLANT", "CONSUMER", "NONE", "NONE">>,
     cycles |-> << <<2, 3, 4>> >>]
>>

NodesOf(n) == 1 .. Networks[n].nn

EdgesOf(n) == 1 .. Networks[n].ne

TypeOf(n) == Networks[n].type

ConsumersOf(n) == {i \in NodesOf(n) : TypeOf(n)[i] = "CONSUMER"}

PlantsOf(n) == {i \in NodesOf(n) : TypeOf(n)[i] = "PLANT"}

\* edge_node_matrix[i][j] = 1 at the end node of pipe j, -1 at its start node
EdgeNodeMatrix(n) ==
    [i \in NodesOf(n) |->
        [j \in EdgesOf(n) |->
            IF Networks[n].end[j] = i THEN 1
            ELSE IF Networks[n].start[j] = i THEN -1
            ELSE 0]]

\* np.where(all_nodes_df['Type'] == 'PLANT')[0][0]
FirstPlant(n) == CHOOSE i \in PlantsOf(n) : \A j \in PlantsOf(n) : i <= j

----------------------------------------------------------------------------
(* Node demand.                                                            *)

\* every plant carries the whole of the consumers' flow
WriteSubstationValuesUndivided(n, mdot) ==
    [i \in NodesOf(n) |->
        IF TypeOf(n)[i] = "CONSUMER" THEN mdot[i]
        ELSE IF TypeOf(n)[i] = "PLANT" THEN 0 - SumSet(mdot, ConsumersOf(n))
        ELSE 0]

\* write_substation_values_to_nodes_df: consumers carry their substation's
\* flow, every plant minus an equal share of the total, the rest 0.
\* (The shares are exact for the substation flows the model draws.)
WriteSubstationValuesToNodesDf(n, mdot) ==
    LET number_of_plants == Cardinality(PlantsOf(n))
        plant_mass_flow == SumSet(mdot, ConsumersOf(n)) \div number_of_plants
    IN  [i \in NodesOf(n) |->
            IF TypeOf(n)[i] = "CONSUMER" THEN mdot[i]
            ELSE IF TypeOf(n)[i] = "PLANT" THEN 0 - plant_mass_flow
            ELSE 0]

----------------------------------------------------------------------------
(* Linear algebra on incidence matrices.                                   *)

MatNodes(z) == DOMAIN z

MatEdges(z) == DOMAIN z[CHOOSE i \in DOMAIN z : TRUE]

\* (z . m)[i], as A.dot(mass_flow_edge): a NaN flow makes every row NaN
Dot(z, m, i) == FSumSet([e \in MatEdges(z) |-> FMul(z[i][e], m[e])], MatEdges(z))

EndNode(z, e) == CHOOSE i \in MatNodes(z) : z[i][e] = 1

StartNode(z, e) == CHOOSE i \in MatNodes(z) : z[i][e] = -1

\* the nodes joined to the nodes of S by pipes other than those of R
RECURSIVE Reach(_, _, _)
Reach(z, R, S) ==
    CHOOSE side \in {IF S2 = S THEN S ELSE Reach(z, R, S2) :
                       S2 \in {S \cup {i \in MatNodes(z) :
                                         \E f \in MatEdges(z) \ R : \E s \in S :
                                             z[s][f] # 0 /\ z[i][f] # 0}}} : TRUE

\* SolveReduced with the demand taken at the wrong end of every pipe
SolveReducedReversed(z, b, plant, R) ==
    [e \in MatEdges(z) |->
        IF e \in R THEN 0
        ELSE LET side == Reach(z, R \cup {e}, {StartNode(z, e)})
             IN  IF plant \notin side
                 THEN SumSet(b, side)
                 ELSE 0 - SumSet(b, MatNodes(z) \ side)]

\* The solution of A.m = b, A the matrix without the row of node `plant`,
\* when the pipes outside R form a tree (pipes of R carry 0): the flow of a
\* pipe is the demand of the part of the network it cuts off from `plant`.
SolveReduced(z, b, plant, R) ==
    [e \in MatEdges(z) |->
        IF e \in R THEN 0
        ELSE LET side == Reach(z, R \cup {e}, {EndNode(z, e)})
             IN  IF plant \notin side
                 THEN SumSet(b, side)
                 ELSE 0 - SumSet(b, MatNodes(z) \ side)]

----------------------------------------------------------------------------
(* find_loops and the loops' pipes.                                        *)

\* nx.cycle_basis of the undirected graph of the network: the cycles do not
\* depend on the orientation of the pipes
FindLoops(z) == Networks[net].cycles

\* graph.get_edge_data(u, v)['edge_number']: the pipe added last between u, v
EdgeNumber(z, u, v) ==
    CHOOSE e \in MatEdges(z) :
        /\ z[u][e] # 0 /\ z[v][e] # 0
        /\ \A f \in MatEdges(z) : (z[u][f] # 0 /\ z[v][f] # 0) => f <= e

\* the node after position j of a loop (lines 310-313)
NextInLoop(loop, j) == IF j = Len(loop) THEN loop[1] ELSE loop[j + 1]

\* lines 316-320: 1 when the pipe ends at loop[j] and starts at the next node
Clockwise(z, loop, j) ==
    LET value == NextInLoop(loop, j)
        e == EdgeNumber(z, loop[j], value)
    IN  IF z[loop[j]][e] = 1 /\ z[value][e] = -1 THEN 1 ELSE -1

\* the signed traversal of a loop as a vector over the pipes
LoopVector(z, loop) ==
    [e \in MatEdges(z) |->
        LET js == {j \in 1 .. Len(loop) : EdgeNumber(z, loop[j], NextInLoop(loop, j)) = e}
        IN  SumSet([j \in 1 .. Len(loop) |-> Clockwise(z, loop, j)], js)]

\* p + q.l with q = -(p.l)/(l.l) (nearest unit): the point of least norm on
\* the line through p along l
LeastNorm(p, l, E) ==
    LET pl == SumSet([e \in E |-> p[e] * l[e]], E)
        ll == SumSet([e \in E |-> l[e] * l[e]], E)
        q == 0 - RoundDiv(pl, ll)
    IN  [e \in E |-> p[e] + q * l[e]]

\* np.linalg.lstsq(A, b_init)[0] for a network with one loop: the solution
\* of A.m = b of least norm
Lstsq(z, b, plant) ==
    LET loop == FindLoops(z)[1]
        chord == EdgeNumber(z, loop[Len(loop)], loop[1])
    IN  CHOOSE m \in {Eager(LeastNorm(p, l, MatEdges(z))) :
                        p \in {Eager(SolveReduced(z, b, plant, {chord}))},
                        l \in {Eager(LoopVector(z, loop))}} : TRUE

----------------------------------------------------------------------------
(* calc_mass_flow_edges (lines 228-381), one step at a time.               *)

\* the matrix object a name refers to: DataFrames are passed by reference
Deref(name) == IF name = "edge_node_df" THEN edge_node_df ELSE edge_node_df_2

CmIdle ==
    [pc |-> "idle", edge_node_df |-> "", b |-> <<>>, mass_flow_edge |-> <<>>,
     m_old |-> <<>>, tolerance |-> 0, iterations |-> 0, guess |-> <<>>]

\* the frame at entry of calc_mass_flow_edges(edge_node_df, mass_flow_substation_df);
\* `guess` keeps the initial guess of line 283 for the bound of the model
CmCall(name, b) ==
    [pc |-> "begin", edge_node_df |-> name, b |-> b, mass_flow_edge |-> <<>>,
     m_old |-> <<>>, tolerance |-> 0, iterations |-> 0, guess |-> <<>>]

\* np.nan_to_num(mass_flow_substation_df.T)
NanToNum(b) == [i \in DOMAIN b |-> IF IsNaN(b[i]) THEN 0 ELSE b[i]]

Tolerance001 == 10000
Tolerance002 == 20000
Tolerance003 == 30000
Iterations20 == 20
Iterations50 == 50
MaxLoopIterations == 100

\* lines 268-290 and 357-363
CalcMassFlowEdgesBegin ==
    /\ cm.pc = "begin"
    /\ LET z == Deref(cm.edge_node_df)
           plant_index == FirstPlant(net)
           b == NanToNum(cm.b)
       IN  IF FindLoops(z) # <<>>
           THEN cm' = [cm EXCEPT !.mass_flow_edge = Lstsq(z, b, plant_index),
                                 !.guess = Lstsq(z, b, plant_index),
                                 !.m_old = [e \in MatEdges(z) |-> 0],
                                 !.tolerance = Tolerance001,
                                 !.iterations = 0,
                                 !.pc = "while"]
           ELSE cm' = [cm EXCEPT !.mass_flow_edge = SolveReduced(z, b, plant_index, {}),
                                 !.pc = "verify"]
    /\ UNCHANGED <<net, network_type, edge_node_df, edge_node_df_2, ch, hy, printed, sp, mn, sv, wk, rp, fc>>

\* line 291: (abs(mass_flow_edge - m_old) > tolerance).any()
LoopCondition ==
    \E e \in DOMAIN cm.mass_flow_edge :
        FGt(FAbs(FSub(cm.mass_flow_edge[e], cm.m_old[e])), cm.tolerance)

\* the pipes of a loop
LoopEdges(z, loop) == {EdgeNumber(z, loop[j], NextInLoop(loop, j)) : j \in 1 .. Len(loop)}

\* Lines 296-324.  The correction of a loop, -sum_delta_m_num / sum_delta_m_den,
\* is computed from the pipes' diameters, lengths and temperatures and the
\* friction regime; the model takes any value of DeltaValues for it.  A pipe
\* whose Reynolds number is at most 1 has darcy = 0 (calc_darcy, line 648) and
\* contributes 0 to both sums, and a NaN flow makes the sums NaN: the correction
\* of a loop without flow is 0/0 = NaN.
MaxFlow == 40000

DeltaValues == {-40000, 0, 20000, 40000}

\* the flow of Reynolds number 1 (3.9e-5 kg/s in a pipe of 0.1 m at 60 C)
ReynoldsOneFlow == 39

DeltaIsNaN(z, loop, m_old) ==
    \/ \E e \in LoopEdges(z, loop) : IsNaN(m_old[e])
    \/ \A e \in LoopEdges(z, loop) : FAbs(m_old[e]) <= ReynoldsOneFlow

\* line 340 for all the pipes of a loop
ApplyLoopCorrection(z, loop, m, delta_m) ==
    LET clockwise == LoopVector(z, loop)
    IN  [e \in MatEdges(z) |->
            IF clockwise[e] = 0 THEN m[e] ELSE FAdd(m[e], FMul(delta_m, clockwise[e]))]

\* lines 305-340: the loops one after the other, loop i corrected by d[i]
RECURSIVE CorrectLoops(_, _, _, _, _, _)
CorrectLoops(z, loops, m_old, m, d, i) ==
    IF i > Len(loops) THEN m
    ELSE LET delta_m == IF DeltaIsNaN(z, loops[i], m_old) THEN NaN ELSE d[i]
         IN  CorrectLoops(z, loops, m_old,
                          ApplyLoopCorrection(z, loops[i], m, delta_m), d, i + 1)

\* the corrections the model follows keep every flow within MaxFlow of the
\* initial guess
Bounded(m, m_0) ==
    \A e \in DOMAIN m :
        IsNaN(m[e]) \/ (m[e] - m_0[e] <= MaxFlow /\ m_0[e] - m[e] <= MaxFlow)

\* lines 344-349: the tolerance after `iterations` iterations
AdaptTolerance(iterations, tolerance) ==
    IF iterations < Iterations20 THEN Tolerance001
    ELSE IF iterations < Iterations50 THEN Tolerance002
    ELSE IF iterations < MaxLoopIterations THEN Tolerance003
    ELSE tolerance

\* a loop correction without ceiling
CeilingNeverReached(iterations) == FALSE

\* lines 350-354: the else branch, which prints and breaks
CeilingReached(iterations) == ~(iterations < MaxLoopIterations)

\* lines 291-354: one iteration of the while loop
CalcMassFlowEdgesIterate ==
    /\ cm.pc = "while"
    /\ LoopCondition
    /\ LET z == Deref(cm.edge_node_df)
           loops == FindLoops(z)
           m_old == cm.mass_flow_edge
           iterations == cm.iterations + 1
       IN  \E d \in [1 .. Len(loops) -> DeltaValues] :
             LET mass_flow_edge == CorrectLoops(z, loops, m_old, m_old, d, 1)
             IN  /\ Bounded(mass_flow_edge, cm.guess)
                 /\ cm' = [cm EXCEPT
                        !.m_old = m_old,
                        !.mass_flow_edge = mass_flow_edge,
                        !.iterations = iterations,
                        !.tolerance = AdaptTolerance(iterations, @),
                        !.pc = IF CeilingReached(iterations) THEN "verify" ELSE "while"]
                 /\ printed' = IF CeilingReached(iterations)
                               THEN printed \cup {"No convergence of looped massflows"}
                               ELSE printed
    /\ UNCHANGED <<net, network_type, edge_node_df, edge_node_df_2, ch, hy, sp, mn, sv, wk, rp, fc>>

\* line 291, the condition false
CalcMassFlowEdgesConverged ==
    /\ cm.pc = "while"
    /\ ~LoopCondition
    /\ cm' = [cm EXCEPT !.pc = "verify"]
    /\ UNCHANGED <<net, network_type, edge_node_df, edge_node_df_2, ch, hy, printed, sp, mn, sv, wk, rp, fc>>

MassDeviationLimit == 10000

\* lines 365-381: the two verifications, the rounding and the return.
\* sum_delta_m_num holds the pressure sums of the last iteration, taken at
\* m_old; the sum of a loop is - delta_m * sum_delta_m_den, so it is 0 for a
\* loop the last iteration left as it was, and any value otherwise.
CalcMassFlowEdgesReturn ==
    /\ cm.pc = "verify"
    /\ LET z == Deref(cm.edge_node_df)
           b_original == NanToNum(cm.b)
           deviation == \E i \in MatNodes(z) \ {FirstPlant(net)} :
                            FGt(FAbs(FSub(b_original[i], Dot(z, cm.mass_flow_edge, i))),
                                MassDeviationLimit)
           residual == /\ FindLoops(z) # <<>>
                       /\ cm.iterations > 0
                       /\ \A e \in MatEdges(z) : ~IsNaN(cm.mass_flow_edge[e])
                       /\ \E e \in MatEdges(z) : cm.mass_flow_edge[e] # cm.m_old[e]
       IN  \E pressure \in IF residual THEN BOOLEAN ELSE {FALSE} :
             printed' = printed
                        \cup (IF deviation THEN {"deviation from node demands"} ELSE {})
                        \cup (IF pressure THEN {"deviation from 0 pressure in loop"} ELSE {})
    /\ cm' = [cm EXCEPT !.mass_flow_edge = [e \in DOMAIN @ |-> Round5(@[e])],
                        !.pc = "return"]
    /\ UNCHANGED <<net, network_type, edge_node_df, edge_node_df_2, ch, hy, sp, mn, sv, wk, rp, fc>>

----------------------------------------------------------------------------
(* change_to_edge_node_matrix_t (lines 547-570), one step at a time.       *)

ChIdle ==
    [pc |-> "idle", edge_mass_flow |-> <<>>, edge_node_df |-> "", b |-> <<>>,
     input |-> <<>>]

\* the frame at entry; `input` remembers the matrix as it was passed in (it is
\* not program state)
ChCall(edge_mass_flow, name, z, b) ==
    [pc |-> "begin", edge_mass_flow |-> edge_mass_flow, edge_node_df |-> name,
     b |-> b, input |-> z]

\* edge_mass_flow.min() of an ndarray: NaN when any entry is NaN
FMin(m) ==
    IF \E e \in DOMAIN m : IsNaN(m[e]) THEN NaN
    ELSE CHOOSE x \in {m[e] : e \in DOMAIN m} : \A e \in DOMAIN m : x <= m[e]

\* line 564: the columns of the pipes in F negated
FlipColumns(z, F) ==
    [i \in MatNodes(z) |-> [e \in MatEdges(z) |-> IF e \in F THEN 0 - z[i][e] ELSE z[i][e]]]

\* line 559
ChangeToEdgeNodeMatrixBegin ==
    /\ ch.pc = "begin"
    /\ ch' = [ch EXCEPT !.edge_mass_flow = [e \in DOMAIN @ |-> Round5(@[e])],
                        !.pc = "while"]
    /\ UNCHANGED <<net, network_type, edge_node_df, edge_node_df_2, cm, hy, printed, sp, mn, sv, wk, rp, fc>>

\* lines 560-569: the flows negated in place, the columns negated in the
\* DataFrame that was passed in, and calc_mass_flow_edges called on it
ChangeToEdgeNodeMatrixFlip ==
    /\ ch.pc = "while"
    /\ FLt(FMin(ch.edge_mass_flow), 0)
    /\ LET F == {e \in DOMAIN ch.edge_mass_flow : ch.edge_mass_flow[e] < 0}
           z == FlipColumns(Deref(ch.edge_node_df), F)
       IN  /\ IF ch.edge_node_df = "edge_node_df"
              THEN edge_node_df' = z /\ UNCHANGED edge_node_df_2
              ELSE edge_node_df_2' = z /\ UNCHANGED edge_node_df
           /\ ch' = [ch EXCEPT !.edge_mass_flow = [e \in DOMAIN @ |-> FAbs(@[e])],
                               !.pc = "solving"]
    /\ cm' = CmCall(ch.edge_node_df, ch.b)
    /\ UNCHANGED <<net, network_type, hy, printed, sp, mn, sv, wk, rp, fc>>

\* line 565, the call returning
ChangeToEdgeNodeMatrixSolved ==
    /\ ch.pc = "solving"
    /\ cm.pc = "return"
    /\ ch' = [ch EXCEPT !.edge_mass_flow = cm.mass_flow_edge, !.pc = "while"]
    /\ cm' = CmIdle
    /\ UNCHANGED <<net, network_type, edge_node_df, edge_node_df_2, hy, printed, sp, mn, sv, wk, rp, fc>>

\* lines 560 and 570: no flow below zero (or a NaN among them)
ChangeToEdgeNodeMatrixReturn ==
    /\ ch.pc = "while"
    /\ ~FLt(FMin(ch.edge_mass_flow), 0)
    /\ ch' = [ch EXCEPT !.pc = "return"]
    /\ UNCHANGED <<net, network_type, edge_node_df, edge_node_df_2, cm, hy, printed, sp, mn, sv, wk, rp, fc>>

----------------------------------------------------------------------------
(* calc_t_out (lines 1918-1980).                                           *)

\* the float 1.0 in units of temperature: the mark of a pipe end whose
\* temperature is not known yet (t_e_out starts as z_pipe_out, t_e_in as
\* -z_pipe_in)
One == 100

Kelvin30 == 3000

SpIdle == [pc |-> "idle"]

MnIdle == [pc |-> "idle"]

SvIdle == [pc |-> "idle"]

WkIdle == [pc |-> "idle"]

RpIdle == [pc |-> "idle"]

FcIdle == [pc |-> "idle"]

\* np.where(z[:, e] == 1)[0]: the rows where column e holds 1
OutNodes(z, e) == {i \in MatNodes(z) : z[i][e] = 1}

\* np.where(z[:, e] == 1)[0].max()
OutNodeIndex(z, e) == CHOOSE i \in MatNodes(z) : z[i][e] = 1 /\ \A j \in MatNodes(z) : z[j][e] = 1 => j <= i

\* line 1968 with the heat capacity rate M = m * cp / 1000:
\* (t_in * (k/2 - M) - k * t_ground) / (-M - k/2), to the nearest unit
PipeOutletTemperature(t_in, k, m, t_ground) ==
    IF IsNaN(t_in) \/ IsNaN(m) THEN NaN
    ELSE RoundDiv(t_in * (2 * m - k) + 2 * k * t_ground, 2 * m + k)

\* Lines 1957-1980 for one pipe e leaving (or not) node `node`; st holds the
\* matrices t_e_in, t_e_out, z_note and the messages printed.  Line 1980,
\* z_note[:, e] = 0, is outside the branches and runs for every pipe.
\* Line 1961 takes the max() of an empty array when column e holds no 1:
\* ValueError.
CalcTOutEdge(node, e, k, m_d, z, t_ground, st) ==
    LET m == Round5(m_d[e])
        out_node_index == OutNodeIndex(z, e)
        zeroed == [i \in MatNodes(z) |-> [st.z_note[i] EXCEPT ![e] = 0]]
    IN  IF OutNodes(z, e) = {} THEN [st EXCEPT !.error = "ValueError"]
        ELSE IF FAbs(m) = 0 /\ z[node][e] = -1
        THEN [st EXCEPT !.t_e_out[out_node_index][e] = NaN, !.z_note = zeroed]
        ELSE IF z[node][e] = -1
        THEN LET t_in == st.t_e_in[node][e]
                 t_out == PipeOutletTemperature(t_in, k[e], m, t_ground)
                 dT == FSub(t_in, t_out)
                 high == FGt(FAbs(dT), Kelvin30)
                 capped == high /\ k[e] - 2 * m > 0
             IN  [st EXCEPT !.t_e_out[out_node_index][e] =
                                 IF capped THEN t_in - Kelvin30 ELSE t_out,
                            !.z_note = zeroed,
                            !.msgs = @ \cup (IF high THEN {"High temperature loss on edge"} ELSE {})
                                       \cup (IF capped
                                             THEN {"Exit temperature decreasing at entry temperature increase"}
                                             ELSE {})]
        ELSE [st EXCEPT !.z_note = zeroed]

\* calc_t_out(node, edge, ..) with `edge` the sequence of pipes passed in.
\* Line 1958, k = k[e, e], rebinds k to a number: for the second pipe of the
\* sequence it indexes that number and raises IndexError.
CalcTOut(node, edge, k, m_d, z, t_ground, st) ==
    IF Len(edge) = 0 THEN st
    ELSE LET first == CalcTOutEdge(node, edge[1], k, m_d, z, t_ground, st)
         IN  IF first.error # "" THEN first
             ELSE IF Len(edge) >= 2 THEN [first EXCEPT !.error = "IndexError"] ELSE first

----------------------------------------------------------------------------
(* calculate_outflow_temp (lines 1688-1768).                                *)

\* row * t_node[j] for a row of marks (0 or 1.0, here One) or temperatures
ScaleRow(row, t) ==
    [e \in DOMAIN row |->
        IF IsNaN(t) \/ IsNaN(row[e]) THEN NaN
        ELSE IF row[e] = 0 THEN 0
        ELSE IF row[e] = One THEN t
        ELSE RoundDiv(row[e] * t, One)]

RowHasNaN(row) == \E e \in DOMAIN row : IsNaN(row[e])

\* ndarray.max() and ndarray.min(): nan if any entry is nan
RowMax(row) ==
    IF RowHasNaN(row) THEN NaN
    ELSE CHOOSE x \in {row[e] : e \in DOMAIN row} : \A e \in DOMAIN row : row[e] <= x

RowMin(row) ==
    IF RowHasNaN(row) THEN NaN
    ELSE CHOOSE x \in {row[e] : e \in DOMAIN row} : \A e \in DOMAIN row : x <= row[e]

\* part1 / part2 of lines 1741-1743: the incoming temperatures weighted by
\* the mass flows over the total incoming mass flow; 0/0 is nan
MixTemperature(z, m_d, t_e_out_j, j) ==
    LET E == MatEdges(z)
        part1 == IF RowHasNaN(t_e_out_j) \/ \E e \in E : IsNaN(m_d[e]) THEN NaN
                 ELSE SumSet([e \in E |-> m_d[e] * t_e_out_j[e]], E)
        part2 == IF \E e \in E : IsNaN(m_d[e]) THEN NaN
                 ELSE SumSet([e \in E |-> IF z[j][e] = 1 THEN m_d[e] ELSE 0], E)
    IN  IF IsNaN(part1) \/ IsNaN(part2) \/ part2 = 0 THEN NaN
        ELSE RoundDiv(part1, part2)

RECURSIVE OutflowEdges(_, _, _, _, _, _, _)
\* lines 1751-1755: calc_t_out for every pipe e with t_e_in[j, e] != 0
OutflowEdges(j, e, k, m_d, z, t_ground, st) ==
    IF e > Len(m_d) \/ st.error # "" THEN st
    ELSE CHOOSE done \in {OutflowEdges(j, e + 1, k, m_d, z, t_ground, next) :
                             next \in {IF st.t_e_in[j][e] # 0
                                       THEN CalcTOutEdge(j, e, k, m_d, z, t_ground, st)
                                       ELSE st}} : TRUE

\* the body of the loop over the nodes, lines 1738-1766
OutflowNode(j, k, m_d, z, t_ground, st) ==
    LET ne == Len(m_d)
        ones == Cardinality({e \in 1..ne : st.z_note[j][e] = 1})
        zeros == Cardinality({e \in 1..ne : st.z_note[j][e] = 0})
    IN  IF ones = 0 /\ zeros # ne
        THEN LET t == MixTemperature(z, m_d, st.t_e_out[j], j)
                 mixed == [st EXCEPT !.t_node[j] = t,
                                     !.t_e_in[j] = ScaleRow(@, t),
                                     !.not_stuck[j] = TRUE]
             IN  CHOOSE done \in {OutflowEdges(j, 1, k, m_d, z, t_ground, next) :
                                     next \in {mixed}} : TRUE
        ELSE IF st.t_node[j] = 0 /\ RowMax(st.t_e_out[j]) # One
        THEN [st EXCEPT !.t_node[j] = RowMax(st.t_e_out[j]), !.not_stuck[j] = TRUE]
        ELSE IF FLt(RowMin(st.t_e_out[j]), 0)
        THEN [st EXCEPT !.msgs = @ \cup {"negative node temperature!"}, !.not_stuck[j] = TRUE]
        ELSE [st EXCEPT !.not_stuck[j] = FALSE]

RECURSIVE CalculateOutflowTemp(_, _, _, _, _, _)
\* for j in range(z.shape[0]): the nodes in index order, each seeing the
\* changes made for the nodes before it
CalculateOutflowTemp(j, k, m_d, z, t_ground, st) ==
    IF j > Len(z) \/ st.error # "" THEN st
    ELSE CHOOSE done \in {CalculateOutflowTemp(j + 1, k, m_d, z, t_ground, next) :
                             next \in {OutflowNode(j, k, m_d, z, t_ground, st)}} : TRUE

----------------------------------------------------------------------------
(* calc_supply_temperatures (lines 1504-1685), one action per step.         *)

Kelvin01 == 10

TempTolerance == 100

DriftBoundDH == 6000

DriftBoundDC == 1000

\* z.clip(min=0) and z.clip(max=0).dot(-1) as float matrices
ZPipeOut(z) == [i \in MatNodes(z) |-> [e \in MatEdges(z) |-> IF z[i][e] = 1 THEN One ELSE 0]]

ZPipeInNeg(z) == [i \in MatNodes(z) |-> [e \in MatEdges(z) |-> IF z[i][e] = -1 THEN One ELSE 0]]

\* lines 1535-1538, 1568-1571, 1627-1630: the matrices before a pass
ResetMatrices(f) ==
    [f EXCEPT !.z_note = f.z, !.t_e_out = ZPipeOut(f.z), !.t_e_in = ZPipeInNeg(f.z),
              !.t_node = [i \in MatNodes(f.z) |-> 0]]

\* lines 1554-1563: the head of `while flag == 0`
OuterLoopHead(f) == [f EXCEPT !.not_stuck = [i \in MatNodes(f.z) |-> TRUE], !.temp_iter = 0]

\* Series.max() / Series.min() skip nan
TargetMax(t) == CHOOSE x \in {t[i] : i \in {j \in DOMAIN t : ~IsNaN(t[j])}} : \A i \in DOMAIN t : IsNaN(t[i]) \/ t[i] <= x

TargetMin(t) == CHOOSE x \in {t[i] : i \in {j \in DOMAIN t : ~IsNaN(t[j])}} : \A i \in DOMAIN t : IsNaN(t[i]) \/ x <= t[i]

SpCall(z, mass_flow_df, k, t_target, t_ground, types) ==
    [pc |-> "begin", z |-> z, m_d |-> mass_flow_df, k |-> k, t_target |-> t_target,
     t_ground |-> t_ground, types |-> types]

\* lines 1531-1563
SupplyBegin ==
    /\ sp.pc = "begin"
    /\ LET t_plant_sup_0 == IF network_type = "DH" THEN TargetMax(sp.t_target) ELSE TargetMin(sp.t_target)
           f == [pc |-> "relax", z |-> sp.z, m_d |-> sp.m_d, k |-> sp.k, t_target |-> sp.t_target,
                 t_ground |-> sp.t_ground, types |-> sp.types,
                 z_note |-> sp.z, t_e_out |-> ZPipeOut(sp.z), t_e_in |-> ZPipeInNeg(sp.z),
                 t_node |-> [i \in MatNodes(sp.z) |-> 0],
                 t_e_out_old |-> ZPipeOut(sp.z),
                 not_stuck |-> [i \in MatNodes(sp.z) |-> TRUE], temp_iter |-> 0,
                 flag |-> 0, t_plant_sup_0 |-> t_plant_sup_0, t_plant_sup |-> t_plant_sup_0,
                 iteration |-> 0, msgs |-> {}, error |-> "", q_loss |-> <<>>]
       IN  sp' = OuterLoopHead(f)
    /\ UNCHANGED <<net, network_type, edge_node_df, edge_node_df_2, cm, ch, hy, printed, mn, sv, wk, rp, fc>>

RECURSIVE PlantLoop(_, _)
\* lines 1574-1581: every plant node gets the trial temperature and its
\* outgoing pipes go to calc_t_out in one call; an exception ends the loop
PlantLoop(i, f) ==
    IF i > Len(f.z) \/ f.error # "" THEN f
    ELSE IF f.types[i] # "PLANT" THEN PlantLoop(i + 1, f)
    ELSE LET edge == SelectSeq([e \in 1..Len(f.m_d) |-> e], LAMBDA e : f.t_e_in[i][e] # 0)
             g == [f EXCEPT !.t_node[i] = f.t_plant_sup, !.t_e_in[i] = ScaleRow(@, f.t_plant_sup)]
         IN  CHOOSE done \in {PlantLoop(i + 1, next) :
                                 next \in {CalcTOut(i, edge, f.k, f.m_d, f.z, f.t_ground, g)}} : TRUE

\* lines 1565-1582: a pass of the relaxation starts
SupplyPlants ==
    /\ sp.pc = "relax"
    /\ \E f \in {PlantLoop(1, ResetMatrices([sp EXCEPT !.t_e_out_old = sp.t_e_out]))} :
           /\ sp' = [f EXCEPT !.pc = IF f.error # "" THEN "raised" ELSE "sweep", !.msgs = {}]
           /\ printed' = printed \cup f.msgs
    /\ UNCHANGED <<net, network_type, edge_node_df, edge_node_df_2, cm, ch, hy, mn, sv, wk, rp, fc>>

Unsolved(f) == \E i \in MatNodes(f.z) : f.t_node[i] = 0

AnyNotStuck(f) == \E i \in MatNodes(f.z) : f.not_stuck[i]

\* lines 1585-1598: one call of calculate_outflow_temp
SupplySweep ==
    /\ sp.pc = "sweep"
    /\ Unsolved(sp)
    /\ AnyNotStuck(sp)
    /\ \E f \in {CalculateOutflowTemp(1, sp.k, sp.m_d, sp.z, sp.t_ground, sp)} :
           /\ sp' = [f EXCEPT !.pc = IF f.error # "" THEN "raised" ELSE "sweep", !.msgs = {}]
           /\ printed' = printed \cup f.msgs
    /\ UNCHANGED <<net, network_type, edge_node_df, edge_node_df_2, cm, ch, hy, mn, sv, wk, rp, fc>>

\* MeanNonzero when the mean is taken over every node, solved or not
MeanOfAllNodes(t_node) ==
    IF \E i \in DOMAIN t_node : IsNaN(t_node[i]) THEN NaN
    ELSE RoundDiv(SumSet(t_node, DOMAIN t_node), Len(t_node))

\* t_node[t_node.nonzero()].mean(): nan counts as nonzero
MeanNonzero(t_node) ==
    LET N == {i \in DOMAIN t_node : t_node[i] # 0}
    IN  IF N = {} \/ \E i \in N : IsNaN(t_node[i]) THEN NaN
        ELSE RoundDiv(SumSet(t_node, N), Cardinality(N))

\* lines 1599-1609: no node could be solved in the last sweep; the first
\* pipe with an unknown outlet temperature gets an assumed one
SupplySeed ==
    /\ sp.pc = "sweep"
    /\ Unsolved(sp)
    /\ ~AnyNotStuck(sp)
    /\ LET E == {e \in MatEdges(sp.z) : \E i \in MatNodes(sp.z) : sp.t_e_out[i][e] = One}
           seeded ==
               IF E = {} THEN sp
               ELSE LET i == CHOOSE e \in E : \A x \in E : e <= x
                        rows == {r \in MatNodes(sp.z) : sp.t_e_out[r][i] = One}
                        assumed == MeanNonzero(sp.t_node)
                    IN  [sp EXCEPT
                            !.z_note = [r \in MatNodes(sp.z) |->
                                           IF r \in rows THEN [@[r] EXCEPT ![i] = 0] ELSE @[r]],
                            !.t_e_out = [r \in MatNodes(sp.z) |->
                                           IF r \in rows
                                           THEN [@[r] EXCEPT ![i] = IF sp.temp_iter < 1 THEN assumed
                                                                     ELSE sp.t_e_out_old[r][i]]
                                           ELSE @[r]]]
       IN  sp' = [seeded EXCEPT !.not_stuck = [r \in MatNodes(sp.z) |-> TRUE]]
    /\ UNCHANGED <<net, network_type, edge_node_df, edge_node_df_2, cm, ch, hy, printed, mn, sv, wk, rp, fc>>

\* np.max(abs(t_e_out_old - t_e_out)): nan if any entry is nan
DeltaTemp(f) ==
    LET D == {FAbs(FSub(f.t_e_out_old[i][e], f.t_e_out[i][e])) : i \in MatNodes(f.z), e \in MatEdges(f.z)}
    IN  IF NaN \in D THEN NaN ELSE CHOOSE x \in D : \A y \in D : y <= x

\* lines 1584, 1611-1612 and the test of line 1565: every node is solved; the
\* pass is repeated while the pipe outlet temperatures moved by 1 K or more
SupplyRelaxed ==
    /\ sp.pc = "sweep"
    /\ ~Unsolved(sp)
    /\ LET delta_temp_0 == DeltaTemp(sp)
       IN  sp' = [sp EXCEPT !.temp_iter = @ + 1,
                            !.pc = IF ~IsNaN(delta_temp_0) /\ delta_temp_0 >= TempTolerance
                                   THEN "relax" ELSE "search"]
    /\ UNCHANGED <<net, network_type, edge_node_df, edge_node_df_2, cm, ch, hy, printed, mn, sv, wk, rp, fc>>

\* (t_node - (t_target_supply__c + 273.15)).dropna(): the nodes it keeps
DtNodes(f) == {i \in MatNodes(f.z) : ~IsNaN(f.t_target[i]) /\ ~IsNaN(f.t_node[i])}

Dt(f, i) == f.t_node[i] - f.t_target[i]

DtMin(f) == CHOOSE x \in {Dt(f, i) : i \in DtNodes(f)} : \A i \in DtNodes(f) : x <= Dt(f, i)

DtMax(f) == CHOOSE x \in {Dt(f, i) : i \in DtNodes(f)} : \A i \in DtNodes(f) : Dt(f, i) <= x

\* a search that goes on whenever a node has a difference to its target
TargetsMissedAlways(f) == DtNodes(f) # {}

\* all(d_t > -0.1) == False for heating, all(d_t < 0.1) == False for cooling
TargetsMissed(f) ==
    IF network_type = "DH"
    THEN \E i \in DtNodes(f) : ~(Dt(f, i) > -Kelvin01)
    ELSE \E i \in DtNodes(f) : ~(Dt(f, i) < Kelvin01)

\* (t_plant_sup - t_plant_sup_0) < 60 for heating, (t_plant_sup_0 - t_plant_sup) < 10 for cooling
DriftBelowBound(f) ==
    IF network_type = "DH"
    THEN f.t_plant_sup - f.t_plant_sup_0 < DriftBoundDH
    ELSE f.t_plant_sup_0 - f.t_plant_sup < DriftBoundDC

\* NodeInsufficient when no node is taken for insufficient
NodeInsufficientNone(f) == {}

\* d_t[d_t < 0] for heating, d_t[d_t > 0] for cooling
NodeInsufficient(f) ==
    IF network_type = "DH"
    THEN {i \in DtNodes(f) : Dt(f, i) < 0}
    ELSE {i \in DtNodes(f) : Dt(f, i) > 0}

\* lines 1622-1631 and 1655-1662: another trial temperature
SupplyRaise ==
    /\ sp.pc = "search"
    /\ TargetsMissed(sp)
    /\ DriftBelowBound(sp)
    /\ LET t_plant_sup == IF network_type = "DH"
                          THEN sp.t_plant_sup + FAbs(DtMin(sp))
                          ELSE sp.t_plant_sup - FAbs(DtMax(sp))
       IN  sp' = OuterLoopHead(ResetMatrices([sp EXCEPT !.t_plant_sup = t_plant_sup,
                                                         !.iteration = @ + 1,
                                                         !.pc = "relax"]))
    /\ UNCHANGED <<net, network_type, edge_node_df, edge_node_df_2, cm, ch, hy, printed, mn, sv, wk, rp, fc>>

\* lines 1633-1645 and 1663-1674: the drift bound is hit
SupplyGiveUp ==
    /\ sp.pc = "search"
    /\ TargetsMissed(sp)
    /\ ~DriftBelowBound(sp)
    /\ sp' = [sp EXCEPT !.t_node = [i \in MatNodes(sp.z) |->
                                       IF i \in NodeInsufficient(sp) THEN sp.t_target[i] ELSE @[i]],
                        !.flag = 1, !.pc = "losses"]
    /\ printed' = printed \cup {"cannot fulfill substation supply node temperature requirement after iterations:"}
    /\ UNCHANGED <<net, network_type, edge_node_df, edge_node_df_2, cm, ch, hy, mn, sv, wk, rp, fc>>

\* lines 1646-1647 and 1675-1676: every target is met
SupplyFound ==
    /\ sp.pc = "search"
    /\ ~TargetsMissed(sp)
    /\ sp' = [sp EXCEPT !.flag = 1, !.pc = "losses"]
    /\ UNCHANGED <<net, network_type, edge_node_df, edge_node_df_2, cm, ch, hy, printed, mn, sv, wk, rp, fc>>

\* np.nanmax of a column: nan only if every entry is nan
ColNanMax(mat, e) ==
    LET V == {mat[i][e] : i \in DOMAIN mat} \ {NaN}
    IN  IF V = {} THEN NaN ELSE CHOOSE x \in V : \A y \in V : y <= x

\* lines 1678-1685: the heat losses of the pipes with flow, and the return
SupplyReturn ==
    /\ sp.pc = "losses"
    /\ sp' = [sp EXCEPT !.pc = "return",
                        !.q_loss = [e \in MatEdges(sp.z) |->
                                       IF FGt(sp.m_d[e], 0)
                                       THEN FMul(sp.m_d[e], FSub(ColNanMax(sp.t_e_in, e),
                                                                  ColNanMax(sp.t_e_out, e)))
                                       ELSE 0]]
    /\ UNCHANGED <<net, network_type, edge_node_df, edge_node_df_2, cm, ch, hy, printed, mn, sv, wk, rp, fc>>

----------------------------------------------------------------------------
(* The supply specification: calc_supply_temperatures as line 1245 calls   *)
(* it, with the matrix of the scenario and the flows of the flipped copy.  *)

HyIdle == [pc |-> "idle"]

SupplyMdotValues == {0, 5000}

KValues == {1000, 10000}

TGround == 28315

\* T_sup_target of the substations plus 273.15
TargetValues(type) == IF type = "DH" THEN {33815, 35315} ELSE {27915, 28315}

\* the flows change_to_edge_node_matrix_t returns for the demand: those of
\* the stored matrix, each in its direction of flow
NormalisedFlows(n, mdot) ==
    LET z == EdgeNodeMatrix(n)
        b == WriteSubstationValuesToNodesDf(n, mdot)
    IN  CHOOSE flows \in {[e \in EdgesOf(n) |-> FAbs(Round5(m[e]))] :
                            m \in {IF Networks[n].cycles = <<>>
                                   THEN Eager(SolveReduced(z, b, FirstPlant(n), {}))
                                   ELSE Lstsq(z, b, FirstPlant(n))}} : TRUE

\* the networks of the supply specification
SupplyNetworks == 1 .. 9

InitSupply ==
    /\ net \in SupplyNetworks
    /\ network_type \in {"DH", "DC"}
    /\ edge_node_df = EdgeNodeMatrix(net)
    /\ edge_node_df_2 = <<>>
    /\ cm = CmIdle
    /\ ch = ChIdle
    /\ hy = HyIdle
    /\ mn = MnIdle
    /\ sv = SvIdle
    /\ wk = WkIdle
    /\ rp = RpIdle
    /\ fc = FcIdle
    /\ printed = {}
    /\ \E mc \in [ConsumersOf(net) -> SupplyMdotValues],
          k \in [EdgesOf(net) -> KValues],
          tc \in [ConsumersOf(net) -> TargetValues(network_type)] :
          LET mdot == [i \in NodesOf(net) |-> IF i \in ConsumersOf(net) THEN mc[i] ELSE 0]
              t == [i \in NodesOf(net) |-> IF i \in ConsumersOf(net) THEN tc[i] ELSE NaN]
          IN  sp = SpCall(edge_node_df, NormalisedFlows(net, mdot), k, t, TGround, TypeOf(net))

NextSupply ==
    \/ SupplyBegin
    \/ SupplyPlants
    \/ SupplySweep
    \/ SupplySeed
    \/ SupplyRelaxed
    \/ SupplyRaise
    \/ SupplyGiveUp
    \/ SupplyFound
    \/ SupplyReturn

SpecSupply == InitSupply /\ [][NextSupply]_vars

----------------------------------------------------------------------------
(* edge_mass_flow_iteration (lines 1367-1458).  It is called with the      *)
(* array calc_mass_flow_edges returned, so that pd.DataFrame(..) has one   *)
(* column and np.where(..)[1] is 0 for every pipe found low: each of them  *)
(* is looked up as the first pipe of the matrix.                           *)

\* min_edge_flows - 0.01, in units of flow
MinEdgeFlow == 90000

\* line 94: the buildings of the scenario, as the nodes that carry their
\* names (get_thermal_network_from_csv, lines 2160-2207), in file order
BuildingNames(n) ==
    LET B == {i \in NodesOf(n) : TypeOf(n)[i] # "NONE"}
    IN  [j \in 1 .. Cardinality(B) |->
            CHOOSE i \in B : Cardinality({h \in B : h < i}) = j - 1]

\* the frame at entry of edge_mass_flow_iteration(.., edge_mass_flow_df,
\* min_iteration, .., edge_node_df, building_names, gv)
WkCall(edge_mass_flow_df, min_iteration, name) ==
    [pc |-> "begin", edge_mass_flow_df |-> edge_mass_flow_df,
     min_iteration |-> min_iteration, edge_node_df |-> name, edges |-> 0,
     node |-> 0, nodes |-> <<>>, low |-> FALSE, min_edge_flow_flag |-> FALSE]

\* lines 1401-1402 and 1405: the flows that are neither zero nor NaN
\* and lie below the minimum
LowEdges(m) == {e \in DOMAIN m : ~IsNaN(m[e]) /\ m[e] # 0 /\ FAbs(m[e]) < MinEdgeFlow}

\* line 1403
NoMassFlows(m) == \A e \in DOMAIN m : IsNaN(m[e]) \/ m[e] = 0

\* the first pipe of the matrix, edge_node_df.columns.values[0]
FirstPipe == 1

\* line 1415: np.where(edge_node_df[pipe_name] == 1)[0][0]
PipeEnd(z, e) == CHOOSE i \in MatNodes(z) : z[i][e] = 1 /\ \A h \in MatNodes(z) : z[h][e] = 1 => i <= h

\* line 1418: any(node_type[node] in s for s in building_names)
IsBuilding(node) == \E j \in DOMAIN BuildingNames(net) : BuildingNames(net)[j] = node

\* np.where(edge_node_df.ix[node_name] == -1)[0]
PipesLeaving(z, node) == {e \in MatEdges(z) : z[node][e] = -1}

\* lines 1397-1415 and 1435-1438: the flows classified and the search for
\* buildings entered or not
WkBegin ==
    /\ wk.pc = "begin"
    /\ LET m == wk.edge_mass_flow_df
           z == Deref(wk.edge_node_df)
           edges == Cardinality(LowEdges(m))
       IN  IF NoMassFlows(m) \/ LowEdges(m) = {}
           THEN wk' = [wk EXCEPT !.min_edge_flow_flag = TRUE, !.pc = "exit"]
           ELSE IF wk.min_iteration < 5 /\ 2 * edges < Len(BuildingNames(net))
           THEN wk' = [wk EXCEPT !.low = TRUE, !.edges = edges,
                                 !.node = PipeEnd(z, FirstPipe), !.pc = "walk"]
           ELSE wk' = [wk EXCEPT !.low = TRUE, !.nodes = BuildingNames(net), !.pc = "exit"]
    /\ UNCHANGED <<net, network_type, edge_node_df, edge_node_df_2, cm, ch, hy, sp, mn, sv, printed, rp, fc>>

\* lines 1418-1432: one turn of the while loop, from a node that is not a
\* building along a pipe that leaves it (random.choice among several)
WkWalkStep ==
    /\ wk.pc = "walk"
    /\ ~IsBuilding(wk.node)
    /\ LET z == Deref(wk.edge_node_df)
           out == PipesLeaving(z, wk.node)
       IN  /\ Cardinality(out) > 1 \/ (out # {} /\ out # {FirstPipe})
           /\ \E new_edge \in out : wk' = [wk EXCEPT !.node = PipeEnd(z, new_edge)]
    /\ UNCHANGED <<net, network_type, edge_node_df, edge_node_df_2, cm, ch, hy, sp, mn, sv, printed, rp, fc>>

\* lines 1418, 1422-1427 and 1433-1434: the while loop left at a building,
\* or by the break at a node whose only leaving pipe is the first of the
\* matrix or that has none; the node appended and the next low pipe taken
WkWalkStop ==
    /\ wk.pc = "walk"
    /\ LET z == Deref(wk.edge_node_df)
           out == PipesLeaving(z, wk.node)
           break == ~IsBuilding(wk.node) /\ (out = {} \/ out = {FirstPipe})
       IN  /\ IsBuilding(wk.node) \/ break
           /\ wk' = [wk EXCEPT !.nodes = Append(@, wk.node),
                               !.min_iteration = IF break THEN 5 ELSE @,
                               !.edges = @ - 1,
                               !.node = PipeEnd(z, FirstPipe),
                               !.pc = IF wk.edges > 1 THEN "walk" ELSE "exit"]
    /\ UNCHANGED <<net, network_type, edge_node_df, edge_node_df_2, cm, ch, hy, sp, mn, sv, printed, rp, fc>>

MinIterationCeiling == 30

\* lines 1439-1458
WkReturn ==
    /\ wk.pc = "exit"
    /\ LET min_iteration == IF wk.low THEN wk.min_iteration + 1 ELSE wk.min_iteration
           stopped == min_iteration > MinIterationCeiling
       IN  /\ wk' = [wk EXCEPT !.min_iteration = min_iteration,
                               !.min_edge_flow_flag = IF stopped THEN TRUE ELSE ~wk.low,
                               !.pc = "return"]
           /\ printed' = printed \cup (IF stopped
                                       THEN {"Stopped minimum edge mass flow iterations at: "}
                                       ELSE {})
    /\ UNCHANGED <<net, network_type, edge_node_df, edge_node_df_2, cm, ch, hy, sp, mn, sv, rp, fc>>

----------------------------------------------------------------------------
(* solve_network_temperatures (lines 1122-1364).  The passes over the      *)
(* supply and the return line are entered here as the calls they are made  *)
(* with; what calc_supply_temperatures does with such a call is the        *)
(* subject of the supply specification.  The temperatures the passes give  *)
(* back reach this function as max_node_dt and, through the substation     *)
(* model, as the flows the substations ask for.                            *)

LowFlow == 50000

HighFlow == 250024

\* substation.substation_return_model_main: the flows the substations ask
\* for, by node; one substation may ask for less than the minimum edge flow
SubstationReturnModel(n) ==
    LET last == CHOOSE i \in ConsumersOf(n) : \A j \in ConsumersOf(n) : j <= i
    IN  {[i \in NodesOf(n) |-> IF i = last THEN x
                               ELSE IF i \in ConsumersOf(n) THEN HighFlow
                               ELSE 0] : x \in {LowFlow, HighFlow}}

\* max(abs(node_dt)) of lines 1258-1263, in units of temperature
MaxNodeDtValues == {0, 500, 5000}

Kelvin10 == 1000

\* a call of calc_supply_temperatures or calc_return_temperatures: the
\* matrix and the flows passed, and the node demand the flows were solved
\* for (which is not an argument of the supply pass)
PassCall(fn, z, m, b) == [fn |-> fn, edge_node_df |-> z, edge_mass_flow_df |-> m, b |-> b]

\* the frame at entry of solve_network_temperatures for a time step;
\* `solved_for` is the demand behind the flows of the file, `calls` the
\* number of calls of edge_mass_flow_iteration the present while loop of
\* line 1199 or 1283 has made
SvCall(edge_mass_flow_df, solved_for) ==
    [pc |-> "begin", edge_mass_flow_df |-> edge_mass_flow_df, solved_for |-> solved_for,
     mass_flow_substations_nodes_df |-> <<>>, mass_flow_substations_nodes_df_2 |-> <<>>,
     edge_mass_flow_df_2_kgs |-> <<>>, edge_mass_flow_df_t |-> <<>>,
     flag |-> 0, iteration |-> 0, min_iteration |-> 0, min_edge_flow_flag |-> FALSE,
     nodes |-> <<>>, max_node_dt |-> 0, call |-> <<>>, calls |-> 0,
     t_supply_nodes_2__k |-> <<>>, t_return_nodes_2__k |-> <<>>,
     q_loss_edges_2_kw |-> <<>>, plant_heat_requirement_kw |-> <<>>, t |-> 0]

\* lines 1192-1199 and 1276-1282
ResetMinimumFlowLoop(f) ==
    [f EXCEPT !.min_edge_flow_flag = FALSE, !.min_iteration = 0, !.nodes = <<>>, !.calls = 0]

\* a test that finds flow in every row of the file
HasFlowAlways(m) == TRUE

\* line 1168: np.absolute(edge_mass_flow_df.values).sum() != 0
HasFlow(m) == FSumSet([e \in DOMAIN m |-> FAbs(m[e])], DOMAIN m) # 0

\* np.full(n, value), lines 1356-1361
Full(n, value) == [i \in 1 .. n |-> value]

\* lines 1168-1181 and 1355-1364: a time step without flow is answered at
\* once, with the values of lines 1357-1361 (on the other path these are
\* what the passes give back); otherwise the first supply pass is called,
\* with the flows of the file
SolveBegin ==
    /\ sv.pc = "begin"
    /\ LET m == sv.edge_mass_flow_df
       IN  IF HasFlow(m)
           THEN sv' = [sv EXCEPT !.call = PassCall("calc_supply_temperatures", edge_node_df,
                                                   m, sv.solved_for),
                                 !.pc = "supply"]
           ELSE sv' = [sv EXCEPT !.t_supply_nodes_2__k = Full(Len(edge_node_df), NaN),
                                 !.t_return_nodes_2__k = Full(Len(edge_node_df), NaN),
                                 !.q_loss_edges_2_kw = Full(Len(edge_node_df[1]), 0),
                                 !.edge_mass_flow_df_2_kgs = m,
                                 !.plant_heat_requirement_kw =
                                     Full(Cardinality(PlantsOf(net)), 0),
                                 !.pc = "return"]
    /\ UNCHANGED <<net, network_type, edge_node_df, edge_node_df_2, cm, ch, hy, sp, mn, wk, printed, rp, fc>>

\* lines 1178-1199: the pass has returned and the loops are entered
SolveSupplied ==
    /\ sv.pc = "supply"
    /\ sv' = [ResetMinimumFlowLoop(sv) EXCEPT !.call = <<>>, !.flag = 0, !.iteration = 0,
                                              !.pc = "min1"]
    /\ UNCHANGED <<net, network_type, edge_node_df, edge_node_df_2, cm, ch, hy, sp, mn, wk, printed, rp, fc>>

\* lines 1200-1222: the substations asked and the pipe flows solved for
SolveSubstations ==
    /\ sv.pc = "min1"
    /\ \E mdot_all_kgs \in SubstationReturnModel(net) :
          LET b == WriteSubstationValuesToNodesDf(net, mdot_all_kgs)
          IN  /\ sv' = [sv EXCEPT !.mass_flow_substations_nodes_df = b, !.pc = "min1_solving"]
              /\ cm' = CmCall("edge_node_df", b)
    /\ UNCHANGED <<net, network_type, edge_node_df, edge_node_df_2, ch, hy, sp, mn, wk, printed, rp, fc>>

\* lines 1218-1231: edge_mass_flow_iteration called with the flows
SolveMinimumFlow ==
    /\ sv.pc = "min1_solving"
    /\ cm.pc = "return"
    /\ sv' = [sv EXCEPT !.edge_mass_flow_df_2_kgs = cm.mass_flow_edge, !.calls = @ + 1,
                        !.pc = "min1_walking"]
    /\ wk' = WkCall(cm.mass_flow_edge, sv.min_iteration, "edge_node_df")
    /\ cm' = CmIdle
    /\ UNCHANGED <<net, network_type, edge_node_df, edge_node_df_2, ch, hy, sp, mn, printed, rp, fc>>

\* lines 1200 and 1224-1239: the loop repeated, or the matrix copied and
\* change_to_edge_node_matrix_t called with the copy
SolveChange ==
    /\ sv.pc = "min1_walking"
    /\ wk.pc = "return"
    /\ wk' = WkIdle
    /\ LET f == [sv EXCEPT !.min_iteration = wk.min_iteration,
                           !.min_edge_flow_flag = wk.min_edge_flow_flag,
                           !.nodes = wk.nodes]
       IN  IF wk.min_edge_flow_flag
           THEN /\ sv' = [f EXCEPT !.pc = "changing"]
                /\ edge_node_df_2' = edge_node_df
                /\ ch' = ChCall(sv.edge_mass_flow_df_2_kgs, "edge_node_df_2", edge_node_df,
                                sv.mass_flow_substations_nodes_df)
           ELSE /\ sv' = [f EXCEPT !.pc = "min1"]
                /\ UNCHANGED <<edge_node_df_2, ch, rp, fc>>
    /\ UNCHANGED <<net, network_type, edge_node_df, cm, hy, sp, mn, printed, rp, fc>>

\* the demand the flows change_to_edge_node_matrix_t returns were solved
\* for: the one passed to it when it had to negate columns (line 565)
SolvedFor(before) == IF Deref(ch.edge_node_df) # ch.input THEN ch.b ELSE before

\* lines 1234-1249: the second supply pass called, with the matrix of the
\* caller and the flows of the copy
SolveSupply ==
    /\ sv.pc = "changing"
    /\ ch.pc = "return"
    /\ ch' = ChIdle
    /\ sv' = [sv EXCEPT !.edge_mass_flow_df_2_kgs = ch.edge_mass_flow,
                        !.call = PassCall("calc_supply_temperatures", edge_node_df,
                                          ch.edge_mass_flow,
                                          SolvedFor(sv.mass_flow_substations_nodes_df)),
                        !.pc = "supply2"]
    /\ UNCHANGED <<net, network_type, edge_node_df, edge_node_df_2, cm, hy, sp, mn, wk, printed, rp, fc>>

\* lines 1245-1282: the pass has returned; the test for convergence
SolveConverged ==
    /\ sv.pc = "supply2"
    /\ \E max_node_dt \in MaxNodeDtValues :
          LET f == [sv EXCEPT !.call = <<>>, !.max_node_dt = max_node_dt]
          IN  IF \/ max_node_dt > One /\ sv.iteration < 10
                 \/ max_node_dt > Kelvin10 /\ 20 > sv.iteration /\ sv.iteration >= 10
              THEN sv' = [ResetMinimumFlowLoop(f) EXCEPT !.iteration = @ + 1, !.pc = "min1"]
              ELSE sv' = [ResetMinimumFlowLoop(f) EXCEPT !.pc = "min2"]
    /\ UNCHANGED <<net, network_type, edge_node_df, edge_node_df_2, cm, ch, hy, sp, mn, wk, printed, rp, fc>>

\* lines 1283-1302: the substations asked again and the flows solved for
\* on the copy of the matrix
SolveSubstations2 ==
    /\ sv.pc = "min2"
    /\ \E mdot_all_2 \in SubstationReturnModel(net) :
          LET b == WriteSubstationValuesToNodesDf(net, mdot_all_2)
          IN  /\ sv' = [sv EXCEPT !.mass_flow_substations_nodes_df_2 = b, !.pc = "min2_solving"]
              /\ cm' = CmCall("edge_node_df_2", b)
    /\ UNCHANGED <<net, network_type, edge_node_df, edge_node_df_2, ch, hy, sp, mn, wk, printed, rp, fc>>

\* lines 1298-1311
SolveMinimumFlow2 ==
    /\ sv.pc = "min2_solving"
    /\ cm.pc = "return"
    /\ sv' = [sv EXCEPT !.edge_mass_flow_df_2_kgs = cm.mass_flow_edge, !.calls = @ + 1,
                        !.pc = "min2_walking"]
    /\ wk' = WkCall(cm.mass_flow_edge, sv.min_iteration, "edge_node_df")
    /\ cm' = CmIdle
    /\ UNCHANGED <<net, network_type, edge_node_df, edge_node_df_2, ch, hy, sp, mn, printed, rp, fc>>

\* lines 1304-1320: change_to_edge_node_matrix_t inside the loop, with the
\* demand of the first loop
SolveChange2 ==
    /\ sv.pc = "min2_walking"
    /\ wk.pc = "return"
    /\ wk' = WkIdle
    /\ sv' = [sv EXCEPT !.min_iteration = wk.min_iteration,
                        !.min_edge_flow_flag = wk.min_edge_flow_flag,
                        !.nodes = wk.nodes,
                        !.pc = "changing2"]
    /\ ch' = ChCall(sv.edge_mass_flow_df_2_kgs, "edge_node_df_2", edge_node_df_2,
                    sv.mass_flow_substations_nodes_df)
    /\ UNCHANGED <<net, network_type, edge_node_df, edge_node_df_2, cm, hy, sp, mn, printed, rp, fc>>

\* lines 1283, 1314-1336: the loop repeated or left; the warning; and
\* calc_mass_flow_edges called with the matrix of the caller
SolveFinal ==
    /\ sv.pc = "changing2"
    /\ ch.pc = "return"
    /\ ch' = ChIdle
    /\ LET f == [sv EXCEPT !.edge_mass_flow_df_2_kgs = ch.edge_mass_flow]
       IN  IF sv.min_edge_flow_flag
           THEN /\ sv' = [f EXCEPT !.flag = 1, !.pc = "final_solving"]
                /\ cm' = CmCall("edge_node_df", sv.mass_flow_substations_nodes_df_2)
                /\ printed' = printed \cup
                                (IF ~(sv.max_node_dt < One)
                                 THEN {"Warning: supply temperature did not converge after"}
                                 ELSE {})
           ELSE /\ sv' = [f EXCEPT !.pc = "min2"]
                /\ UNCHANGED <<cm, printed, rp, fc>>
    /\ UNCHANGED <<net, network_type, edge_node_df, edge_node_df_2, hy, sp, mn, wk, rp, fc>>

\* lines 1332-1347: change_to_edge_node_matrix_t called with the matrix of
\* the caller itself
SolveFinalChange ==
    /\ sv.pc = "final_solving"
    /\ cm.pc = "return"
    /\ cm' = CmIdle
    /\ sv' = [sv EXCEPT !.edge_mass_flow_df_t = cm.mass_flow_edge, !.pc = "final_changing"]
    /\ ch' = ChCall(cm.mass_flow_edge, "edge_node_df", edge_node_df,
                    sv.mass_flow_substations_nodes_df)
    /\ UNCHANGED <<net, network_type, edge_node_df, edge_node_df_2, hy, sp, mn, wk, printed, rp, fc>>

\* lines 1342-1350: the pass over the return line called
SolveReturnPass ==
    /\ sv.pc = "final_changing"
    /\ ch.pc = "return"
    /\ ch' = ChIdle
    /\ sv' = [sv EXCEPT !.edge_mass_flow_df_t = ch.edge_mass_flow,
                        !.call = PassCall("calc_return_temperatures", edge_node_df,
                                          ch.edge_mass_flow,
                                          SolvedFor(sv.mass_flow_substations_nodes_df_2)),
                        !.pc = "return_pass"]
    /\ UNCHANGED <<net, network_type, edge_node_df, edge_node_df_2, cm, hy, sp, mn, wk, printed, rp, fc>>

\* lines 1349-1364: the pass has returned, and so does the function; its
\* copy of the matrix is gone with it
SolveReturn ==
    /\ sv.pc = "return_pass"
    /\ sv' = [sv EXCEPT !.call = <<>>, !.pc = "return"]
    /\ edge_node_df_2' = <<>>
    /\ UNCHANGED <<net, network_type, edge_node_df, cm, ch, hy, sp, mn, wk, printed, rp, fc>>

----------------------------------------------------------------------------
(* thermal_network_main (lines 60-200): the loop over the time steps.      *)

NumHours == 2

\* the flows of a time step in the file of edge mass flows (line 770):
\* those of the stored matrix for the demand d
EdgeMassFlowCsv(n, d) ==
    LET z == EdgeNodeMatrix(n)
        b == WriteSubstationValuesToNodesDf(n, d)
    IN  CHOOSE flows \in {[e \in EdgesOf(n) |-> Round5(m[e])] :
                            m \in {IF Networks[n].cycles = <<>>
                                   THEN Eager(SolveReduced(z, b, FirstPlant(n), {}))
                                   ELSE Lstsq(z, b, FirstPlant(n))}} : TRUE

NoDemand(n) == [i \in NodesOf(n) |-> 0]

NominalDemand(n) == [i \in NodesOf(n) |-> IF i \in ConsumersOf(n) THEN HighFlow ELSE 0]

\* lines 146-158: solve_network_temperatures called for time step t
MainSolve ==
    /\ mn.pc = "loop"
    /\ mn.t < NumHours
    /\ \E d \in {NominalDemand(net), NoDemand(net)} :
          sv' = [SvCall(EdgeMassFlowCsv(net, d), WriteSubstationValuesToNodesDf(net, d))
                    EXCEPT !.t = mn.t]
    /\ mn' = [mn EXCEPT !.pc = "solving"]
    /\ UNCHANGED <<net, network_type, edge_node_df, edge_node_df_2, cm, ch, hy, sp, wk, printed, rp, fc>>

\* the row put before the rows a list holds
StoredFirst(list, row) == <<row>> \o list

\* list.append(row), lines 173-179
Stored(list, row) == Append(list, row)

\* the lists of results of lines 137-144
ResultLists ==
    {"T_return_nodes_list", "T_supply_nodes_list", "q_loss_supply_edges_list",
     "plant_heat_requirements", "pressure_nodes_supply", "pressure_nodes_return",
     "pressure_loss_system"}

\* lines 152-179: the pressures computed from what the solve of the time
\* step returned and a row appended to every list of results; a row is
\* written here as the time step whose solve it comes from
MainStore ==
    /\ mn.pc = "solving"
    /\ sv.pc = "return"
    /\ mn' = [mn EXCEPT !.rows = @ + 1, !.t = @ + 1, !.pc = "loop",
                        !.lists = [l \in ResultLists |-> Stored(@[l], sv.t)]]
    /\ sv' = SvIdle
    /\ UNCHANGED <<net, network_type, edge_node_df, edge_node_df_2, cm, ch, hy, sp, wk, printed, rp, fc>>

\* lines 146 and 184-200: the loop left and the results written
MainSave ==
    /\ mn.pc = "loop"
    /\ mn.t = NumHours
    /\ mn' = [mn EXCEPT !.pc = "done"]
    /\ UNCHANGED <<net, network_type, edge_node_df, edge_node_df_2, cm, ch, hy, sp, sv, wk, printed, rp, fc>>

\* the networks of the main specification
MainNetworks == {2, 10, 11}

Init ==
    /\ net \in MainNetworks
    /\ network_type = "DH"
    /\ edge_node_df = EdgeNodeMatrix(net)
    /\ edge_node_df_2 = <<>>
    /\ cm = CmIdle
    /\ ch = ChIdle
    /\ hy = HyIdle
    /\ sp = SpIdle
    /\ sv = SvIdle
    /\ wk = WkIdle
    /\ rp = RpIdle
    /\ fc = FcIdle
    /\ printed = {}
    /\ mn = [pc |-> "loop", t |-> 0, rows |-> 0, lists |-> [l \in ResultLists |-> <<>>]]

Next ==
    \/ MainSolve
    \/ MainStore
    \/ MainSave
    \/ SolveBegin
    \/ SolveSupplied
    \/ SolveSubstations
    \/ SolveMinimumFlow
    \/ SolveChange
    \/ SolveSupply
    \/ SolveConverged
    \/ SolveSubstations2
    \/ SolveMinimumFlow2
    \/ SolveChange2
    \/ SolveFinal
    \/ SolveFinalChange
    \/ SolveReturnPass
    \/ SolveReturn
    \/ WkBegin
    \/ WkWalkStep
    \/ WkWalkStop
    \/ WkReturn
    \/ CalcMassFlowEdgesBegin
    \/ CalcMassFlowEdgesIterate
    \/ CalcMassFlowEdgesConverged
    \/ CalcMassFlowEdgesReturn
    \/ ChangeToEdgeNodeMatrixBegin
    \/ ChangeToEdgeNodeMatrixFlip
    \/ ChangeToEdgeNodeMatrixSolved
    \/ ChangeToEdgeNodeMatrixReturn

Spec == Init /\ [][Next]_vars

\* the program is sequential and deterministic in its control: whenever it
\* has a next step it takes one
FairSpec == Init /\ [][Next]_vars /\ WF_vars(Next)

----------------------------------------------------------------------------
(* The hydraulic specification: the flows of a network are solved for a    *)
(* demand and then brought to the direction of flow, as lines 1332-1347 do *)
(* (there, too, with a demand that may differ from the one solved for).    *)

MdotValues == {0, 16, 250024}

\* the substation flows of a time step, by node (0 at nodes without substation)
SubstationFlows(n) ==
    {mdot \in [NodesOf(n) -> MdotValues] :
        \A i \in NodesOf(n) : TypeOf(n)[i] # "CONSUMER" => mdot[i] = 0}

\* the networks of the hydraulic specification
HydNetworks == 1 .. 8

InitHyd ==
    /\ net \in HydNetworks
    /\ network_type = "DH"
    /\ edge_node_df = EdgeNodeMatrix(net)
    /\ edge_node_df_2 = <<>>
    /\ cm = CmIdle
    /\ ch = ChIdle
    /\ printed = {}
    /\ sp = SpIdle
    /\ mn = MnIdle
    /\ sv = SvIdle
    /\ wk = WkIdle
    /\ rp = RpIdle
    /\ fc = FcIdle
    /\ \E mdot \in SubstationFlows(net), mdot_2 \in SubstationFlows(net) :
          /\ Cardinality({i \in NodesOf(net) : mdot[i] # mdot_2[i]}) <= 1
          /\ hy = [pc |-> "start", mdot |-> mdot, mdot_2 |-> mdot_2]

\* line 1332: calc_mass_flow_edges(edge_node_df, mass_flow_substations_nodes_df_2, ..)
HySolve ==
    /\ hy.pc = "start"
    /\ cm' = CmCall("edge_node_df", WriteSubstationValuesToNodesDf(net, hy.mdot))
    /\ hy' = [hy EXCEPT !.pc = "solving"]
    /\ UNCHANGED <<net, network_type, edge_node_df, edge_node_df_2, ch, printed, sp, mn, sv, wk, rp, fc>>

\* lines 1233 and 1234, 1342: the flows returned, the matrix copied and
\* change_to_edge_node_matrix_t called with the copy
HyChange ==
    /\ hy.pc = "solving"
    /\ cm.pc = "return"
    /\ hy' = [hy EXCEPT !.pc = "changing"]
    /\ cm' = CmIdle
    /\ edge_node_df_2' = edge_node_df
    /\ ch' = ChCall(cm.mass_flow_edge, "edge_node_df_2", edge_node_df,
                    WriteSubstationValuesToNodesDf(net, hy.mdot_2))
    /\ UNCHANGED <<net, network_type, edge_node_df, printed, sp, mn, sv, wk, rp, fc>>

\* change_to_edge_node_matrix_t has returned
HyDone ==
    /\ hy.pc = "changing"
    /\ ch.pc = "return"
    /\ hy' = [hy EXCEPT !.pc = "done"]
    /\ UNCHANGED <<net, network_type, edge_node_df, edge_node_df_2, cm, ch, printed, sp, mn, sv, wk, rp, fc>>

NextHyd ==
    \/ HySolve
    \/ HyChange
    \/ HyDone
    \/ CalcMassFlowEdgesBegin
    \/ CalcMassFlowEdgesIterate
    \/ CalcMassFlowEdgesConverged
    \/ CalcMassFlowEdgesReturn
    \/ ChangeToEdgeNodeMatrixBegin
    \/ ChangeToEdgeNodeMatrixFlip
    \/ ChangeToEdgeNodeMatrixSolved
    \/ ChangeToEdgeNodeMatrixReturn

SpecHyd == InitHyd /\ [][NextHyd]_vars

----------------------------------------------------------------------------
(* Claims on the hydraulic specification.                                  *)

\* the number of pipes at node i
Degree(z, i) == Cardinality({e \in MatEdges(z) : z[i][e] # 0})

RoundingError == 5

\* |(z . m)[i] - b[i]| <= limit
BalancedWithin(z, m, b, i, limit) ==
    LET r == FSub(Dot(z, m, i), b[i])
    IN  ~IsNaN(r) /\ r <= limit /\ 0 - r <= limit

C8_LoopCorrectionCeiling ==
    /\ cm.iterations <= 100
    /\ (cm.pc = "while" => cm.iterations < 100)
    /\ (cm.pc \in {"while", "verify", "return"} /\ cm.iterations = 100) =>
          /\ cm.pc \in {"verify", "return"}
          /\ "No convergence of looped massflows" \in printed
          /\ DOMAIN cm.mass_flow_edge = EdgesOf(net)
    /\ (cm.pc = "verify") => ENABLED CalcMassFlowEdgesReturn

\* the ceiling was reached, the message printed and the flows returned
C8_ReturnedAtCeiling ==
    /\ cm.pc = "return"
    /\ cm.iterations = 100
    /\ FindLoops(Deref(cm.edge_node_df)) # <<>>
    /\ "No convergence of looped massflows" \in printed
    /\ \A e \in EdgesOf(net) : ~IsNaN(cm.mass_flow_edge[e])

\* the columns of `out` are those of `in`, some of them negated
ColumnsNegated(in, out) ==
    /\ DOMAIN out = DOMAIN in
    /\ \A e \in MatEdges(in) :
          \/ \A i \in MatNodes(in) : out[i][e] = in[i][e]
          \/ \A i \in MatNodes(in) : out[i][e] = 0 - in[i][e]
    /\ \A e \in MatEdges(in) :
          /\ Cardinality({i \in MatNodes(in) : out[i][e] = 1}) = 1
          /\ Cardinality({i \in MatNodes(in) : out[i][e] = -1}) = 1
          /\ Cardinality({i \in MatNodes(in) : out[i][e] # 0}) = 2

\* C4: when change_to_edge_node_matrix_t returns, every returned flow is >= 0
\* and the returned matrix is the input matrix with whole columns negated.
C4_NonNegativeFlowsAndFlippedColumns ==
    (ch.pc = "return") =>
        /\ \A e \in DOMAIN ch.edge_mass_flow :
              ~IsNaN(ch.edge_mass_flow[e]) /\ ch.edge_mass_flow[e] >= 0
        /\ ColumnsNegated(ch.input, Deref(ch.edge_node_df))

----------------------------------------------------------------------------
(* Claims on the supply pass.                                              *)

SupplyRunning == sp.pc \notin {"idle", "begin"}

OutgoingPipes(z, i) == {e \in MatEdges(z) : z[i][e] = -1}

\* the pipes that end at node i and carry flow
FlowingInto(z, m, i) == {e \in MatEdges(z) : z[i][e] = 1 /\ FGt(m[e], 0)}

MultiPipePlants == {i \in MatNodes(sp.z) : sp.types[i] = "PLANT" /\ Cardinality(OutgoingPipes(sp.z, i)) >= 2}

\* C5: for a plant with two or more outgoing pipes no exception is raised,
\* once the pipes of the plants are done every outgoing pipe of such a plant
\* has an outlet temperature (its mark 1.0 is gone), and at the return every
\* node has a temperature.
C5_PlantWithSeveralPipesCompletes ==
    (SupplyRunning /\ MultiPipePlants # {}) =>
        /\ sp.pc # "raised"
        /\ sp.pc \in {"sweep", "search", "losses", "return"} =>
              \A i \in MultiPipePlants : \A e \in OutgoingPipes(sp.z, i) :
                  sp.t_e_out[EndNode(sp.z, e)][e] # One
        /\ sp.pc = "return" => \A i \in MatNodes(sp.z) : sp.t_node[i] # 0

\* C6: when a relaxation pass is complete, every node with two or more
\* incoming pipes carrying flow has the mass-flow-weighted average of the
\* outlet temperatures of its incoming pipes, with or without outgoing pipes.
C6_MixedAtEveryConfluence ==
    (SupplyRunning /\ sp.pc = "search") =>
        \A j \in MatNodes(sp.z) :
            Cardinality(FlowingInto(sp.z, sp.m_d, j)) >= 2 =>
                sp.t_node[j] = MixTemperature(sp.z, sp.m_d, sp.t_e_out[j], j)

PlantDrift == IF sp.t_plant_sup >= sp.t_plant_sup_0
              THEN sp.t_plant_sup - sp.t_plant_sup_0
              ELSE sp.t_plant_sup_0 - sp.t_plant_sup

\* C9: the trial supply temperature of the plant is never more than 60 K
\* (heating) or 10 K (cooling) away from the initial guess.
C9_DriftWithinBound ==
    SupplyRunning => PlantDrift <= (IF network_type = "DH" THEN DriftBoundDH ELSE DriftBoundDC)

\* the drift bound is reached while a consumer misses its target by the
\* tolerance or more
BoundHit ==
    /\ SupplyRunning
    /\ sp.pc = "search"
    /\ PlantDrift >= (IF network_type = "DH" THEN DriftBoundDH ELSE DriftBoundDC)
    /\ \E i \in MatNodes(sp.z) :
          /\ sp.types[i] = "CONSUMER"
          /\ ~IsNaN(sp.t_node[i])
          /\ IF network_type = "DH"
             THEN sp.t_node[i] <= sp.t_target[i] - Kelvin01
             ELSE sp.t_node[i] >= sp.t_target[i] + Kelvin01

\* a consumer whose computed temperature is on the wrong side of its target
Deficient(i) ==
    /\ sp.types[i] = "CONSUMER"
    /\ ~IsNaN(sp.t_node[i])
    /\ IF network_type = "DH" THEN sp.t_node[i] < sp.t_target[i] ELSE sp.t_node[i] > sp.t_target[i]

FailureMessage == "cannot fulfill substation supply node temperature requirement after iterations:"

\* C10: when the drift bound is hit, the step that follows raises nothing,
\* prints the failure message, sets every deficient consumer to its own
\* target and leaves every other node as computed; these are the node
\* temperatures the pass returns.
C10_BoundHitForcesTargets ==
    [][/\ BoundHit =>
            /\ sp'.pc = "losses"
            /\ sp'.error = ""
            /\ FailureMessage \in printed'
            /\ \A i \in MatNodes(sp.z) :
                  sp'.t_node[i] = IF Deficient(i) THEN sp.t_target[i] ELSE sp.t_node[i]
       /\ (SupplyRunning /\ sp.pc = "losses") =>
            /\ sp'.pc = "return"
            /\ sp'.t_node = sp.t_node]_vars

C10_ReturnedWithForcedNode ==
    /\ SupplyRunning
    /\ sp.pc = "return"
    /\ FailureMessage \in printed
    /\ PlantDrift >= (IF network_type = "DH" THEN DriftBoundDH ELSE DriftBoundDC)
    /\ \E i, j \in MatNodes(sp.z) :
          /\ sp.types[i] = "CONSUMER" /\ sp.t_node[i] = sp.t_target[i]
          /\ sp.types[j] = "CONSUMER" /\ ~IsNaN(sp.t_node[j]) /\ sp.t_node[j] # sp.t_target[j]

----------------------------------------------------------------------------
(* Claims about solve_network_temperatures and the loop over the hours.    *)

PassCalled == sv.pc \in {"supply", "supply2", "return_pass"}

\* C2: in solve_network_temperatures every call of the supply pass and of
\* the return pass receives a matrix and flows that belong together: every
\* flow is non-negative along the orientation stored in that matrix, and
\* matrix . flow equals the node demand the flow was solved for (here up to
\* the rounding of the flows, and not asked of rows with a NaN flow).
C2_PassCallsBelongTogether ==
    PassCalled =>
        LET z == sv.call.edge_node_df
            m == sv.call.edge_mass_flow_df
        IN  /\ \A e \in MatEdges(z) : IsNaN(m[e]) \/ m[e] >= 0
            /\ \A i \in MatNodes(z) :
                  \/ IsNaN(Dot(z, m, i))
                  \/ BalancedWithin(z, m, sv.call.b, i, RoundingError * Degree(z, i))

\* C3: a call of solve_network_temperatures leaves the caller's incidence
\* matrix unchanged: whenever the loop over the hours is about to solve an
\* hour (or has solved the last), edge_node_df is the matrix that was read
\* from the network files.
C3_CallersMatrixUnchanged ==
    mn.pc = "loop" => edge_node_df = EdgeNodeMatrix(net)

\* C7: every per-timestep solve terminates: a call of
\* solve_network_temperatures is followed by its return.
C7_EverySolveTerminates == (sv.pc = "begin") ~> (sv.pc = "return")

----------------------------------------------------------------------------
(* Claims about the outer loop of solve_network_temperatures.              *)

\* C11: the outer loop re-iterates as long as the maximum change of the
\* substation supply temperatures is at least 1 K and fewer than 20
\* iterations have been made, and stops only when the change is below 1 K
\* or the count has reached 20: the step that tests convergence goes back
\* to the head of the loop exactly in the first case.
C11_OuterLoopReiterates ==
    [][(sv.pc = "supply2" /\ sv'.pc # "supply2") =>
          ((sv'.max_node_dt >= One /\ sv.iteration < 20) <=> sv'.pc = "min1")]_vars

----------------------------------------------------------------------------
(* Claims about the seeding of looped networks in calc_supply_temperatures. *)

\* the supply pass as a sequential program: a sweep or a seed that can be
\* made is made
FairSpecSupply == SpecSupply /\ WF_vars(SupplySweep) /\ WF_vars(SupplySeed)

\* the traversal is stuck: unsolved nodes remain and the last sweep left
\* every flag of not_stuck down
SeedDue == sp.pc = "sweep" /\ Unsolved(sp) /\ ~AnyNotStuck(sp)

\* the nodes that have a temperature
KnownNodes(f) == {i \in MatNodes(f.z) : f.t_node[i] # 0}

\* the pipes whose outlet temperature is still the mark 1.0
UnknownInflows(f) == {e \in MatEdges(f.z) : \E i \in MatNodes(f.z) : f.t_e_out[i][e] = One}

\* the mean of the temperatures of the known nodes (nan if one of them is nan)
KnownMean(f) ==
    IF \E i \in KnownNodes(f) : IsNaN(f.t_node[i]) THEN NaN
    ELSE LET total == SumSet([i \in MatNodes(f.z) |-> f.t_node[i]], MatNodes(f.z))
         IN  RoundDiv(total, Cardinality(KnownNodes(f)))

\* a sweep that moved no node from unsolved to solved
IdleSweep ==
    /\ sp.pc = "sweep" /\ Unsolved(sp) /\ AnyNotStuck(sp)
    /\ sp'.pc = "sweep" /\ KnownNodes(sp') = KnownNodes(sp)

\* exactly one unknown inflow e gets the seed; every other entry is kept
SeedsOneInflow ==
    \E e \in UnknownInflows(sp) :
        /\ \A i \in MatNodes(sp.z) : \A x \in MatEdges(sp.z) :
              sp'.t_e_out[i][x] =
                  IF x = e /\ sp.t_e_out[i][x] = One
                  THEN (IF sp.temp_iter < 1 THEN KnownMean(sp) ELSE sp.t_e_out_old[i][x])
                  ELSE sp.t_e_out[i][x]
        /\ UnknownInflows(sp') = UnknownInflows(sp) \ {e}
        /\ sp'.t_node = sp.t_node

----------------------------------------------------------------------------
(* calc_return_temperatures (lines 1771-1881), one action per step, and    *)
(* calc_return_node_temperature (lines 1884-1915).                         *)

\* m_sub[index].max(): the row of the diagonal matrix holds the substation
\* flow of the node and, with more than one node, zeros
MSubRowMax(m_sub, index) ==
    IF Len(m_sub) > 1 /\ m_sub[index] < 0 THEN 0 ELSE m_sub[index]

\* lines 1906-1915
CalcReturnNodeTemperature(index, m_d, t_e_out, t_return, z, m_sub) ==
    LET E == MatEdges(z)
        sub == MSubRowMax(m_sub, index)
        total_mass_flow_to_node ==
            SumSet([e \in E |-> IF z[index][e] = 1 THEN m_d[e] ELSE 0], E) + sub
        total_mcp_from_edges ==
            SumSet([e \in E |-> IF IsNaN(t_e_out[index][e]) THEN 0
                                ELSE m_d[e] * t_e_out[index][e]], E)
        total_mcp_from_substations == IF sub = 0 THEN 0 ELSE FMul(sub, t_return[index])
    IN  IF total_mass_flow_to_node = 0 THEN NaN
        ELSE IF IsNaN(total_mcp_from_substations) THEN NaN
        ELSE RoundDiv(total_mcp_from_edges + total_mcp_from_substations, total_mass_flow_to_node)

\* calc_t_out as the return pass calls it, with one pipe.  After a seed the
\* name k is bound to the index of the loop of line 1859 and line 1958,
\* k = k[e, e], raises TypeError.
ReturnCalcTOut(node, e, st) ==
    IF st.k_rebound THEN [st EXCEPT !.error = "TypeError"]
    ELSE CalcTOutEdge(node, e, st.k, st.m_d, st.z, st.t_ground, st)

RECURSIVE ReturnEdges(_, _, _, _)
\* lines 1834-1838 and 1846-1850: the pipes leaving node j get the node
\* temperature as inlet temperature and go to calc_t_out
ReturnEdges(j, edge, t, st) ==
    IF edge > Len(st.m_d) \/ st.error # "" THEN st
    ELSE CHOOSE done \in {ReturnEdges(j, edge + 1, t, next) :
                             next \in {IF st.t_e_in[j][edge] # 0
                                       THEN ReturnCalcTOut(j, edge, [st EXCEPT !.t_e_in[j][edge] = t])
                                       ELSE st}} : TRUE

RECURSIVE ReturnBranchEnds(_, _)
\* lines 1829-1838: the nodes without an incoming return pipe
ReturnBranchEnds(i, st) ==
    IF i > Len(st.z) \/ st.error # "" THEN st
    ELSE LET ne == Len(st.m_d)
             ones == Cardinality({e \in 1..ne : st.z[i][e] = 1})
             zeros == Cardinality({e \in 1..ne : st.z[i][e] = 0})
         IN  CHOOSE done \in {ReturnBranchEnds(i + 1, next) :
                                 next \in {IF ones = 0 /\ zeros # ne
                                           THEN ReturnEdges(i, 1, st.t_return[i],
                                                            [st EXCEPT !.t_node[i] = st.t_return[i]])
                                           ELSE st}} : TRUE

\* lines 1843-1856: the body of the loop over the nodes
ReturnNode(j, st) ==
    LET ne == Len(st.m_d)
        ones == Cardinality({e \in 1..ne : st.z_note[j][e] = 1})
        zeros == Cardinality({e \in 1..ne : st.z_note[j][e] = 0})
        t == CalcReturnNodeTemperature(j, st.m_d, st.t_e_out, st.t_return, st.z, st.m_sub)
    IN  IF ones = 0 /\ zeros # ne
        THEN CHOOSE done \in {IF next.error # "" THEN next ELSE [next EXCEPT !.not_stuck[j] = TRUE] :
                                 next \in {ReturnEdges(j, 1, t, [st EXCEPT !.t_node[j] = t])}} : TRUE
        ELSE IF zeros = ne /\ st.t_node[j] = 0
        THEN [st EXCEPT !.t_node[j] = t, !.not_stuck[j] = TRUE]
        ELSE [st EXCEPT !.not_stuck[j] = FALSE]

RECURSIVE ReturnNodes(_, _)
\* line 1842: for j in range(z.shape[0])
ReturnNodes(j, st) ==
    IF j > Len(st.z) \/ st.error # "" THEN st
    ELSE CHOOSE done \in {ReturnNodes(j + 1, next) : next \in {ReturnNode(j, st)}} : TRUE

RpCall(z, mass_flow_df, mass_flow_substation_df, k, t_return, t_ground, t_supply, types) ==
    [pc |-> "begin", z |-> z, m_d |-> mass_flow_df, mass_flow_substation_df |-> mass_flow_substation_df,
     k |-> k, t_return |-> t_return, t_ground |-> t_ground, t_supply |-> t_supply, types |-> types]

\* lines 1794-1816; z = np.asarray(edge_node_df) * (-1)
ReturnBegin ==
    /\ rp.pc = "begin"
    /\ LET z == [i \in MatNodes(rp.z) |-> [e \in MatEdges(rp.z) |-> 0 - rp.z[i][e]]]
       IN  rp' = [pc |-> "relax", z |-> z, m_d |-> rp.m_d,
                  mass_flow_substation_df |-> rp.mass_flow_substation_df,
                  k |-> rp.k, t_return |-> rp.t_return, t_ground |-> rp.t_ground,
                  t_supply |-> rp.t_supply, types |-> rp.types,
                  m_sub |-> rp.mass_flow_substation_df,
                  z_note |-> z, t_e_out |-> ZPipeOut(z), t_e_in |-> ZPipeInNeg(z),
                  t_node |-> [i \in MatNodes(z) |-> 0], t_e_out_old |-> ZPipeOut(z),
                  not_stuck |-> [i \in MatNodes(z) |-> TRUE], temp_iter |-> 0,
                  k_rebound |-> FALSE, msgs |-> {}, error |-> "",
                  plant_heat_requirement_kw |-> <<>>]
    /\ UNCHANGED <<net, network_type, edge_node_df, edge_node_df_2, cm, ch, hy, sp, mn, sv, wk, fc, printed>>

\* lines 1818-1838: a relaxation pass starts with the nodes at the ends of
\* the branches
ReturnBranches ==
    /\ rp.pc = "relax"
    /\ \E f \in {ReturnBranchEnds(1, [ResetMatrices([rp EXCEPT !.t_e_out_old = rp.t_e_out])
                                        EXCEPT !.m_sub = rp.mass_flow_substation_df])} :
           /\ rp' = [f EXCEPT !.pc = IF f.error # "" THEN "raised" ELSE "sweep", !.msgs = {}]
           /\ printed' = printed \cup f.msgs
    /\ UNCHANGED <<net, network_type, edge_node_df, edge_node_df_2, cm, ch, hy, sp, mn, sv, wk, fc>>

\* z_note.max() >= 1
PipesLeft(f) == \E i \in MatNodes(f.z) : \E e \in MatEdges(f.z) : f.z_note[i][e] >= 1

\* lines 1840-1856: one sweep over the nodes
ReturnSweep ==
    /\ rp.pc = "sweep"
    /\ PipesLeft(rp)
    /\ AnyNotStuck(rp)
    /\ \E f \in {ReturnNodes(1, rp)} :
           /\ rp' = [f EXCEPT !.pc = IF f.error # "" THEN "raised" ELSE "sweep", !.msgs = {}]
           /\ printed' = printed \cup f.msgs
    /\ UNCHANGED <<net, network_type, edge_node_df, edge_node_df_2, cm, ch, hy, sp, mn, sv, wk, fc>>

\* lines 1858-1869: stuck; the first pipe whose outlet temperature is still
\* the mark 1.0 gets an assumed one.  The loop variable is named k: it
\* indexes t_return, a row of node values, by the pipe number, and it
\* replaces the conduction coefficients from here on.
ReturnSeed ==
    /\ rp.pc = "sweep"
    /\ PipesLeft(rp)
    /\ ~AnyNotStuck(rp)
    /\ LET E == {e \in MatEdges(rp.z) : \E i \in MatNodes(rp.z) : rp.t_e_out[i][e] = One}
           rebound == [rp EXCEPT !.k_rebound = TRUE,
                                 !.not_stuck = [r \in MatNodes(rp.z) |-> TRUE]]
       IN  IF E = {} THEN rp' = rebound
           ELSE LET i == CHOOSE e \in E : \A x \in E : e <= x
                    rows == {r \in MatNodes(rp.z) : rp.t_e_out[r][i] = One}
                IN  IF rp.temp_iter < 1 /\ i > Len(rp.t_return)
                    THEN rp' = [rp EXCEPT !.error = "IndexError", !.pc = "raised",
                                          !.z_note = [r \in MatNodes(rp.z) |->
                                              IF r \in rows THEN [@[r] EXCEPT ![i] = 0] ELSE @[r]]]
                    ELSE rp' = [rebound EXCEPT
                            !.z_note = [r \in MatNodes(rp.z) |->
                                           IF r \in rows THEN [@[r] EXCEPT ![i] = 0] ELSE @[r]],
                            !.t_e_out = [r \in MatNodes(rp.z) |->
                                           IF r \in rows
                                           THEN [@[r] EXCEPT ![i] = IF rp.temp_iter < 1
                                                                     THEN rp.t_return[i]
                                                                     ELSE rp.t_e_out_old[r][i]]
                                           ELSE @[r]]]
    /\ UNCHANGED <<net, network_type, edge_node_df, edge_node_df_2, cm, ch, hy, sp, mn, sv, wk, fc, printed>>

\* lines 1872-1879: the first node whose temperature is still 0 is taken
\* for the plant; then the test of the relaxation loop
ReturnPlant ==
    /\ rp.pc = "sweep"
    /\ ~PipesLeft(rp)
    /\ LET Z == {i \in MatNodes(rp.z) : rp.t_node[i] = 0}
           f == IF Z = {} THEN rp
                ELSE LET node_index == CHOOSE i \in Z : \A j \in Z : i <= j
                         m_sub == [rp.m_sub EXCEPT ![node_index] = 0]
                     IN  [rp EXCEPT !.m_sub = m_sub,
                                    !.t_node[node_index] =
                                        CalcReturnNodeTemperature(node_index, rp.m_d, rp.t_e_out,
                                                                  rp.t_return, rp.z, m_sub)]
           delta_temp_0 == DeltaTemp(f)
       IN  rp' = [f EXCEPT !.temp_iter = @ + 1,
                           !.pc = IF ~IsNaN(delta_temp_0) /\ delta_temp_0 >= TempTolerance
                                  THEN "relax" ELSE "return"]
    /\ UNCHANGED <<net, network_type, edge_node_df, edge_node_df_2, cm, ch, hy, sp, mn, sv, wk, fc, printed>>

\* np.where(all_nodes_df['Type'] == 'PLANT'): plant_node as line 1582 leaves it
PlantNode(types) == {i \in DOMAIN types : types[i] = "PLANT"}

\* calc_plant_heat_requirement (lines 1461-1481) as line 1353 calls it, in
\* units of cp/1000
ReturnPlantHeat ==
    /\ rp.pc = "return"
    /\ rp' = [rp EXCEPT !.pc = "done",
                        !.plant_heat_requirement_kw =
                            [node \in PlantNode(rp.types) |->
                                FMul(FSub(rp.t_supply[node], rp.t_node[node]),
                                     FAbs(rp.mass_flow_substation_df[node]))]]
    /\ UNCHANGED <<net, network_type, edge_node_df, edge_node_df_2, cm, ch, hy, sp, mn, sv, wk, fc, printed>>

----------------------------------------------------------------------------
(* The return specification: calc_return_temperatures as line 1349 calls   *)
(* it, with the matrix flipped in place at line 1342 and its flows.        *)

ReturnMdotValues == {0, 5000}

\* T_return_all of the substations plus 273.15
ReturnValues == {30315, 31315}

\* the temperature of the supply pass at the plants
PlantSupplyTemperature == 33815

\* the matrix change_to_edge_node_matrix_t leaves for the demand, the pipes
\* with a negative flow turned, and the flows along it
FlippedNetwork(n, mdot) ==
    LET z == EdgeNodeMatrix(n)
        b == WriteSubstationValuesToNodesDf(n, mdot)
    IN  CHOOSE flipped \in {[z |-> FlipColumns(z, {e \in EdgesOf(n) : Round5(m[e]) < 0}),
                             m |-> [e \in EdgesOf(n) |-> FAbs(Round5(m[e]))]] :
                            m \in {IF Networks[n].cycles = <<>>
                                   THEN Eager(SolveReduced(z, b, FirstPlant(n), {}))
                                   ELSE Lstsq(z, b, FirstPlant(n))}} : TRUE

\* the networks of the return specification
ReturnNetworks == {1, 2, 3, 4, 6, 7, 9, 11, 12, 13, 14}

InitReturn ==
    /\ net \in ReturnNetworks
    /\ network_type \in {"DH", "DC"}
    /\ edge_node_df_2 = <<>>
    /\ cm = CmIdle
    /\ ch = ChIdle
    /\ hy = HyIdle
    /\ sp = SpIdle
    /\ mn = MnIdle
    /\ sv = SvIdle
    /\ wk = WkIdle
    /\ fc = FcIdle
    /\ printed = {}
    /\ \E mc \in [ConsumersOf(net) -> ReturnMdotValues],
          k \in [EdgesOf(net) -> KValues],
          tc \in [ConsumersOf(net) -> ReturnValues] :
          LET mdot == [i \in NodesOf(net) |-> IF i \in ConsumersOf(net) THEN mc[i] ELSE 0]
              t == [i \in NodesOf(net) |-> IF i \in ConsumersOf(net) THEN tc[i] ELSE NaN]
              t_supply == [i \in NodesOf(net) |-> PlantSupplyTemperature]
          IN  \E flipped \in {FlippedNetwork(net, mdot)} :
                  /\ edge_node_df = flipped.z
                  /\ rp = RpCall(edge_node_df, flipped.m, WriteSubstationValuesToNodesDf(net, mdot),
                                 k, t, TGround, t_supply, TypeOf(net))

NextReturn ==
    \/ ReturnBegin
    \/ ReturnBranches
    \/ ReturnSweep
    \/ ReturnSeed
    \/ ReturnPlant
    \/ ReturnPlantHeat

SpecReturn == InitReturn /\ [][NextReturn]_vars

----------------------------------------------------------------------------
(* Claims about the return pass.                                           *)

\* the return pipes whose outlet is at node p
ReturnPipesReaching(f, p) == {e \in MatEdges(f.z) : f.z[p][e] = 1}

ReturnInflow(f, p) ==
    SumSet([e \in MatEdges(f.z) |-> IF e \in ReturnPipesReaching(f, p) THEN f.m_d[e] ELSE 0],
           MatEdges(f.z))

\* the outlet temperatures of the pipes reaching p, weighted by their flows
MixedReturnTemperature(f, p) ==
    RoundDiv(SumSet([e \in MatEdges(f.z) |->
                        IF e \in ReturnPipesReaching(f, p) THEN f.m_d[e] * f.t_e_out[p][e] ELSE 0],
                    MatEdges(f.z)),
             ReturnInflow(f, p))

\* C13: after the return pass every PLANT node that return pipes reach with
\* flow has the mix of the outlet temperatures of these pipes as its return
\* temperature, whatever the numbering of the nodes and the number of
\* plants, and its heat requirement is computed from that temperature.
C13_PlantsGetMixedReturnTemperature ==
    rp.pc = "done" =>
        \A p \in PlantNode(rp.types) :
            ReturnInflow(rp, p) > 0 =>
                /\ rp.t_node[p] = MixedReturnTemperature(rp, p)
                /\ rp.plant_heat_requirement_kw[p] =
                       (rp.t_supply[p] - MixedReturnTemperature(rp, p))
                           * FAbs(rp.mass_flow_substation_df[p])

----------------------------------------------------------------------------
(* find_loops (lines 384-418) computed from the matrix: the graph of lines *)
(* 404-413 and nx.cycle_basis(graph, 0).  Nodes are numbered from 1 here,  *)
(* so that the root and the default ends of new_edge = [0, 0] are node 1.  *)

\* the last j of the loop of line 408 whose entry in column i is v; 1 if none
LastNodeWith(z, i, v) ==
    LET J == {j \in MatNodes(z) : z[j][i] = v}
    IN  IF J = {} THEN 1 ELSE CHOOSE j \in J : \A x \in J : x <= j

\* lines 406-413: new_edge of pipe i
NewEdge(z, i) == <<LastNodeWith(z, i, 1), LastNodeWith(z, i, -1)>>

\* lines 404-413: nx.Graph() keeps one edge per pair of nodes; graph[u] is
\* the set of the neighbours of u (u itself for an edge from u to u)
BuildGraph(z) ==
    [u \in MatNodes(z) |->
        {v \in MatNodes(z) : \E i \in MatEdges(z) :
            NewEdge(z, i) = <<u, v>> \/ NewEdge(z, i) = <<v, u>>}]

\* the nodes of the graph: those named by an edge
GraphNodes(graph) == {u \in DOMAIN graph : graph[u] # {}}

RECURSIVE CyclePath(_, _, _, _)
\* cycle.append(p); p = pred[p] while p is not in used[nbr]; then the last p
CyclePath(cycle, p, pn, pred) ==
    IF p \in pn THEN Append(cycle, p)
    ELSE CHOOSE done \in {CyclePath(next, pred[p], pn, pred) : next \in {Append(cycle, p)}} : TRUE

\* the body of `for nbr in G[z]` of nx.cycle_basis
BasisNeighbour(zn, nbr, st) ==
    IF nbr \notin st.seen
    THEN [st EXCEPT !.pred[nbr] = zn, !.stack = Append(@, nbr),
                    !.used[nbr] = {zn}, !.seen = @ \cup {nbr}]
    ELSE IF nbr = zn
    THEN [st EXCEPT !.cycles = Append(@, <<zn>>)]
    ELSE IF nbr \notin st.used[zn]
    THEN [st EXCEPT !.cycles = Append(@, CyclePath(<<nbr, zn>>, st.pred[zn], st.used[nbr], st.pred)),
                    !.used[nbr] = @ \cup {zn}]
    ELSE st

RECURSIVE BasisNeighbours(_, _, _, _)
\* for nbr in G[z], the neighbours in ascending order
BasisNeighbours(graph, zn, todo, st) ==
    IF todo = {} THEN st
    ELSE LET nbr == CHOOSE v \in todo : \A x \in todo : v <= x
         IN  CHOOSE done \in {BasisNeighbours(graph, zn, todo \ {nbr}, next) :
                                 next \in {BasisNeighbour(zn, nbr, st)}} : TRUE

RECURSIVE BasisStack(_, _)
\* while stack: z = stack.pop()
BasisStack(graph, st) ==
    IF st.stack = <<>> THEN st
    ELSE LET zn == st.stack[Len(st.stack)]
             popped == [st EXCEPT !.stack = SubSeq(@, 1, Len(@) - 1)]
         IN  CHOOSE done \in {BasisStack(graph, next) :
                                 next \in {BasisNeighbours(graph, zn, graph[zn], popped)}} : TRUE

RECURSIVE BasisComponents(_, _, _, _)
\* while gnodes: the component of the root, then those of the nodes left
BasisComponents(graph, gnodes, root, cycles) ==
    IF gnodes = {} THEN cycles
    ELSE LET st == BasisStack(graph, [stack |-> <<root>>,
                                      pred |-> [u \in DOMAIN graph |-> IF u = root THEN root ELSE 0],
                                      used |-> [u \in DOMAIN graph |-> {}],
                                      seen |-> {root}, cycles |-> cycles])
         IN  CHOOSE done \in {IF left = {} THEN next.cycles
                              ELSE BasisComponents(graph, left, CHOOSE u \in left : \A x \in left : u <= x,
                                                   next.cycles) :
                                 next \in {st}, left \in {gnodes \ st.seen}} : TRUE

\* nx.cycle_basis(graph, 0)
CycleBasis(graph) == BasisComponents(graph, GraphNodes(graph), 1, <<>>)

\* graph[0] in nx.cycle_basis raises KeyError when no pipe names the root
FindLoopsRaises(z) == 1 \notin GraphNodes(BuildGraph(z))

\* find_loops(edge_node_df)
FindLoopsOf(z) == IF FindLoopsRaises(z) THEN <<>> ELSE CycleBasis(BuildGraph(z))

----------------------------------------------------------------------------
(* The loop specification: a node file and a pipe file are read (lines     *)
(* 2179-2189 and 2266-2276) and find_loops is called on the matrix, as     *)
(* lines 268 and 785 do.  net = 0: the files are not among Networks.       *)

MaxNodes == 4

MaxPipes == 4

\* lines 2183-2188 and 2270-2275: the entry is 1 where the pipe's end node
\* is the node of the row, -1 where its start node is, and stays 0 otherwise
ReadEdgeNodeMatrix(list_nodes, start_node, end_node) ==
    [i \in 1 .. Len(list_nodes) |->
        [j \in 1 .. Len(start_node) |->
            IF end_node[j] = list_nodes[i] THEN 1
            ELSE IF start_node[j] = list_nodes[i] THEN -1
            ELSE 0]]

\* the pairs of node names a pipe may join; the name nn + 1 is in no node file
NodePairs(nn) == {p \in (1 .. nn + 1) \X (1 .. nn + 1) : p[1] < p[2]}

InitLoops ==
    /\ net = 0
    /\ network_type \in {"DH", "DC"}
    /\ edge_node_df = <<>>
    /\ edge_node_df_2 = <<>>
    /\ cm = CmIdle
    /\ ch = ChIdle
    /\ hy = HyIdle
    /\ sp = SpIdle
    /\ mn = MnIdle
    /\ sv = SvIdle
    /\ wk = WkIdle
    /\ rp = RpIdle
    /\ printed = {}
    /\ \E nn \in 2 .. MaxNodes, ne \in 1 .. MaxPipes, turned \in BOOLEAN :
          \E pipes \in [1 .. ne -> NodePairs(nn)] :
              fc = [pc |-> "read", then |-> "loops", list_nodes |-> [i \in 1 .. nn |-> i],
                    start_node |-> [j \in 1 .. ne |-> IF turned THEN pipes[j][2] ELSE pipes[j][1]],
                    end_node |-> [j \in 1 .. ne |-> IF turned THEN pipes[j][1] ELSE pipes[j][2]]]

\* lines 2179-2189; fc.then is where the caller goes on
ReadNetwork ==
    /\ fc.pc = "read"
    /\ edge_node_df' = ReadEdgeNodeMatrix(fc.list_nodes, fc.start_node, fc.end_node)
    /\ fc' = [fc EXCEPT !.pc = fc.then]
    /\ UNCHANGED <<net, network_type, edge_node_df_2, cm, ch, hy, sp, mn, sv, wk, rp, printed>>

\* line 268: loops, graph = find_loops(edge_node_df)
FindLoopsCall ==
    /\ fc.pc = "loops"
    /\ fc' = [pc |-> IF FindLoopsRaises(edge_node_df) THEN "raised" ELSE "found",
              then |-> fc.then, list_nodes |-> fc.list_nodes,
              start_node |-> fc.start_node, end_node |-> fc.end_node,
              loops |-> FindLoopsOf(edge_node_df)]
    /\ UNCHANGED <<net, network_type, edge_node_df, edge_node_df_2, cm, ch, hy, sp, mn, sv, wk, rp, printed>>

NextLoops ==
    \/ ReadNetwork
    \/ FindLoopsCall

SpecLoops == InitLoops /\ [][NextLoops]_vars

----------------------------------------------------------------------------
(* Claims about find_loops.                                                *)

\* every pipe of the files joins two nodes of the node file
WellFormed(f) ==
    \A j \in 1 .. Len(f.start_node) :
        f.start_node[j] \in 1 .. Len(f.list_nodes) /\ f.end_node[j] \in 1 .. Len(f.list_nodes)

\* every node can be reached from node 1 along the pipes
Connected(z) == Reach(z, {}, {1}) = MatNodes(z)

\* some pipe of the matrix joins u and v
Joined(z, u, v) == \E e \in MatEdges(z) : u # v /\ z[u][e] # 0 /\ z[v][e] # 0

\* C14: for every connected network find_loops returns exactly
\* |edges| - |nodes| + 1 loops (none for a tree, one for a ring of four
\* nodes, one per extra pipe when two pipes join the same pair of nodes), and
\* every two consecutive nodes of a returned loop are joined by a pipe.
C14_OneLoopPerIndependentCycle ==
    (fc.pc = "found" /\ WellFormed(fc) /\ Connected(edge_node_df)) =>
        /\ Len(fc.loops) = Len(fc.start_node) - Len(fc.list_nodes) + 1
        /\ \A l \in 1 .. Len(fc.loops) : \A j \in 1 .. Len(fc.loops[l]) :
               Joined(edge_node_df, fc.loops[l][j], NextInLoop(fc.loops[l], j))

----------------------------------------------------------------------------
(* The file specification: the run of thermal_network_main from the node   *)
(* and pipe files up to the first solution of the mass flows: the reader   *)
(* (line 98), the supply pass of line 1178 with the flows of the mass flow *)
(* file, and find_loops and the solver of calc_mass_flow_edges (lines      *)
(* 268-283 and 357-363).  No step of the source catches an exception.      *)

FileMaxNodes == 3

FileMaxPipes == 2

\* the flow of every pipe in the mass flow file
FileFlow == 5000

\* T_sup_target of every substation plus 273.15
FileTarget == 33815

RECURSIVE Det(_)
\* the determinant of a square matrix, along its first row
Det(a) ==
    IF Len(a) = 1 THEN a[1][1]
    ELSE LET n == Len(a)
             minor(c) == [i \in 1 .. n - 1 |->
                            [j \in 1 .. n - 1 |-> a[i + 1][IF j < c THEN j ELSE j + 1]]]
             sign(c) == IF c % 2 = 1 THEN 1 ELSE -1
         IN  SumSet([c \in 1 .. n |-> IF a[1][c] = 0 THEN 0 ELSE sign(c) * a[1][c] * Det(minor(c))],
                    1 .. n)

\* edge_node_df.drop(edge_node_df.index[plant_index])
DropRow(z, plant_index) ==
    [i \in 1 .. Len(z) - 1 |-> z[IF i < plant_index THEN i ELSE i + 1]]

\* np.linalg.solve(A.values, b) raises LinAlgError unless A is square and
\* regular; np.linalg.lstsq raises for no matrix
SolverRaises(z, loops, plant_index) ==
    /\ loops = <<>>
    /\ LET A == DropRow(z, plant_index)
       IN  \/ Len(A) # Len(z[1])
           \/ Det(A) = 0

InitFiles ==
    /\ net = 0
    /\ network_type = "DH"
    /\ edge_node_df = <<>>
    /\ edge_node_df_2 = <<>>
    /\ cm = CmIdle
    /\ ch = ChIdle
    /\ hy = HyIdle
    /\ sp = SpIdle
    /\ mn = MnIdle
    /\ sv = SvIdle
    /\ wk = WkIdle
    /\ rp = RpIdle
    /\ printed = {}
    /\ \E nn \in 2 .. FileMaxNodes, ne \in 1 .. FileMaxPipes, turned \in BOOLEAN, kv \in KValues :
          \E pipes \in [1 .. ne -> NodePairs(nn)], plant \in 1 .. nn :
              fc = [pc |-> "read", then |-> "supply", list_nodes |-> [i \in 1 .. nn |-> i],
                    start_node |-> [j \in 1 .. ne |-> IF turned THEN pipes[j][2] ELSE pipes[j][1]],
                    end_node |-> [j \in 1 .. ne |-> IF turned THEN pipes[j][1] ELSE pipes[j][2]],
                    types |-> [i \in 1 .. nn |-> IF i = plant THEN "PLANT" ELSE "CONSUMER"],
                    k |-> [j \in 1 .. ne |-> kv]]

\* line 1178: the supply pass with the flows of the mass flow file
FilesSupplyCall ==
    /\ fc.pc = "supply"
    /\ sp' = SpCall(edge_node_df, [j \in MatEdges(edge_node_df) |-> FileFlow], fc.k,
                    [i \in MatNodes(edge_node_df) |->
                        IF fc.types[i] = "CONSUMER" THEN FileTarget ELSE NaN],
                    TGround, fc.types)
    /\ fc' = [fc EXCEPT !.pc = "supply_pass"]
    /\ UNCHANGED <<net, network_type, edge_node_df, edge_node_df_2, cm, ch, hy, mn, sv, wk, rp, printed>>

\* an exception of the supply pass ends the run
FilesSupplyRaised ==
    /\ fc.pc = "supply_pass"
    /\ sp.pc = "raised"
    /\ fc' = [fc EXCEPT !.pc = "aborted"]
    /\ UNCHANGED <<net, network_type, edge_node_df, edge_node_df_2, cm, ch, hy, sp, mn, sv, wk, rp, printed>>

\* lines 1224 and 268-283, 357-363: find_loops and the solver of the flows
FilesMassFlow ==
    /\ fc.pc = "supply_pass"
    /\ sp.pc = "return"
    /\ \E loops \in {FindLoopsOf(edge_node_df)} :
          fc' = [fc EXCEPT !.pc = IF \/ FindLoopsRaises(edge_node_df)
                                     \/ SolverRaises(edge_node_df, loops,
                                                     CHOOSE i \in DOMAIN fc.types : fc.types[i] = "PLANT")
                                  THEN "aborted" ELSE "solved"]
    /\ sp' = SpIdle
    /\ UNCHANGED <<net, network_type, edge_node_df, edge_node_df_2, cm, ch, hy, mn, sv, wk, rp, printed>>

NextFiles ==
    \/ ReadNetwork
    \/ FilesSupplyCall
    \/ SupplyBegin
    \/ SupplyPlants
    \/ SupplySweep
    \/ SupplySeed
    \/ SupplyRelaxed
    \/ SupplyRaise
    \/ SupplyGiveUp
    \/ SupplyFound
    \/ SupplyReturn
    \/ FilesSupplyRaised
    \/ FilesMassFlow

SpecFiles == InitFiles /\ [][NextFiles]_vars

----------------------------------------------------------------------------
(* Claims about malformed pipe files.                                      *)

\* column e of the matrix holds exactly one 1 and one -1
ProperColumn(z, e) ==
    /\ Cardinality({i \in MatNodes(z) : z[i][e] = 1}) = 1
    /\ Cardinality({i \in MatNodes(z) : z[i][e] = -1}) = 1
    /\ \A i \in MatNodes(z) : z[i][e] \in {-1, 0, 1}

\* C15: when a column of the edge-node matrix does not hold exactly one +1
\* and one -1 (a pipe whose start or end node is not in the node file), the
\* run aborts with an error before any mass flow is solved: no run gets to
\* solved mass flows with such a column.
C15_MalformedColumnAborts ==
    fc.pc = "solved" => \A e \in MatEdges(edge_node_df) : ProperColumn(edge_node_df, e)

----------------------------------------------------------------------------
(* assign_pipes_to_edges (lines 421-475), one step per pipe.  A record of  *)
(* the catalog is its Pipe_DN and its mdot_max_kgs; the flows of a pipe    *)
(* are the rows of its column of mass_flow_df.                             *)

\* np.amax(np.absolute(mass_flow_df[pipe].values))
AmaxAbsolute(values) ==
    CHOOSE x \in {FAbs(values[r]) : r \in DOMAIN values} : \A r \in DOMAIN values : FAbs(values[r]) <= x

\* PipeSearch when the search does not go past the first record
PipeSearchFirstOnly(pipe_catalog, flow, i) ==
    [i |-> 1, found |-> flow <= pipe_catalog[1].mdot_max_kgs]

RECURSIVE PipeSearch(_, _, _)
\* lines 447-459: the loop over the catalog for the largest flow `flow`;
\* found is FALSE when the last record is taken for want of a larger one
PipeSearch(pipe_catalog, flow, i) ==
    IF flow <= pipe_catalog[i].mdot_max_kgs THEN [i |-> i, found |-> TRUE]
    ELSE IF i = Len(pipe_catalog) THEN [i |-> i, found |-> FALSE]
    ELSE PipeSearch(pipe_catalog, flow, i + 1)

\* a lookup that takes every record of the catalog for a match
CatalogIndexAny(pipe_catalog, dn) == DOMAIN pipe_catalog

\* pipe_catalog.Pipe_DN[pipe_catalog.Pipe_DN == row['Pipe_DN']].index
CatalogIndex(pipe_catalog, dn) == {i \in DOMAIN pipe_catalog : pipe_catalog[i].Pipe_DN = dn}

\* the frame at entry of assign_pipes_to_edges; `network_edges` is the
\* column Pipe_DN of the edges shapefile of the network,
\* `run` counts the calls made with these arguments and `first` is what
\* the first of them returned
FcCall(set_diameter, mass_flow_df, edge_df, pipe_catalog) ==
    [pc |-> "assign", set_diameter |-> set_diameter, mass_flow_df |-> mass_flow_df,
     edge_df |-> edge_df, pipe_catalog |-> pipe_catalog,
     pipe |-> 1, pipe_properties_df |-> <<>>, warned |-> {}, returned |-> <<>>,
     network_edges |-> edge_df, run |-> 1, first |-> <<>>]

\* a catalog file whose records come back in the opposite order
ReadPipeCatalogReversed(f) ==
    [i \in DOMAIN f.pipe_catalog |-> f.pipe_catalog[Len(f.pipe_catalog) + 1 - i]]

\* lines 440-443: the catalog read from the file of the database, which a
\* call of the function does not write
ReadPipeCatalog(f) == f.pipe_catalog

\* lines 445-459: the next pipe of `for pipe in mass_flow_df`
AssignSizedPipe ==
    /\ fc.pc = "assign"
    /\ fc.set_diameter
    /\ fc.pipe <= Len(fc.mass_flow_df)
    /\ LET s == PipeSearch(fc.pipe_catalog, AmaxAbsolute(fc.mass_flow_df[fc.pipe]), 1)
       IN  /\ fc' = [fc EXCEPT !.pipe_properties_df = Append(@, fc.pipe_catalog[s.i]),
                               !.warned = IF s.found THEN @ ELSE @ \cup {fc.pipe},
                               !.pipe = @ + 1]
           /\ printed' = IF s.found THEN printed
                         ELSE printed \cup {"requires a bigger pipe than provided in the database."}
    /\ UNCHANGED <<net, network_type, edge_node_df, edge_node_df_2, cm, ch, hy, sp, mn, sv, wk, rp>>

\* lines 466-473: the next pipe of `for pipe, row in edge_df.iterrows()`;
\* ValueError when the catalog has no record of the diameter
AssignGivenPipe ==
    /\ fc.pc = "assign"
    /\ ~fc.set_diameter
    /\ fc.pipe <= Len(fc.edge_df)
    /\ LET index == CatalogIndex(fc.pipe_catalog, fc.edge_df[fc.pipe])
       IN  IF index = {}
           THEN fc' = [fc EXCEPT !.pc = "raised"]
           ELSE fc' = [fc EXCEPT !.pipe_properties_df =
                                     Append(@, fc.pipe_catalog[CHOOSE i \in index : TRUE]),
                                 !.pipe = @ + 1]
    /\ UNCHANGED <<net, network_type, edge_node_df, edge_node_df_2, cm, ch, hy, sp, mn, sv, wk, rp, printed>>

\* lines 460-464 and 475: after sizing, the diameters written to the edges
\* shapefile; the return
AssignReturn ==
    /\ fc.pc = "assign"
    /\ fc.pipe > Len(fc.edge_df)
    /\ fc' = [fc EXCEPT !.pc = "return", !.returned = fc.pipe_properties_df,
                        !.network_edges =
                            IF fc.set_diameter
                            THEN [p \in DOMAIN fc.pipe_properties_df |->
                                     fc.pipe_properties_df[p].Pipe_DN]
                            ELSE @]
    /\ UNCHANGED <<net, network_type, edge_node_df, edge_node_df_2, cm, ch, hy, sp, mn, sv, wk, rp, printed>>

\* the function called once more with the arguments of the call that has
\* returned: the catalog is read again, the shapefile is as the first call
\* left it
AssignAgain ==
    /\ fc.pc = "return"
    /\ fc.run = 1
    /\ fc' = [FcCall(fc.set_diameter, fc.mass_flow_df, fc.edge_df, ReadPipeCatalog(fc))
                  EXCEPT !.network_edges = fc.network_edges,
                         !.run = 2,
                         !.first = fc.returned]
    /\ UNCHANGED <<net, network_type, edge_node_df, edge_node_df_2, cm, ch, hy, sp, mn, sv, wk, rp, printed>>

----------------------------------------------------------------------------
(* The pipe specification: assign_pipes_to_edges on a catalog, the flows   *)
(* and the diameters of a pipe file.  With set_diameter the flows vary     *)
(* from pipe to pipe and from hour to hour and the pipe file names one     *)
(* diameter; without it the diameters vary and the pipes carry one flow.   *)

\* Pipe_DN of the catalog, and one diameter more for the pipe file
CatalogDN == {20, 25}

EdgeDN == {20, 25, 32}

\* Pipe_DN of the pipe file when the pipes are sized
GivenDN == 20

\* mdot_max_kgs of the catalog and the flows of the pipes, in kg/s
CatalogMdotMax == {10, 20}

PipeFlows == {-25, 5, 10}

NumPipes == 2

NumRows == 2

\* the catalogs: one or two records, no diameter twice, in any order
Catalogs ==
    LET Records == [Pipe_DN : CatalogDN, mdot_max_kgs : CatalogMdotMax]
    IN  {<<r>> : r \in Records}
            \cup {c \in {<<r, s>> : r \in Records, s \in Records} : c[1].Pipe_DN # c[2].Pipe_DN}

InitPipes ==
    /\ net = 0
    /\ network_type = "DH"
    /\ edge_node_df = <<>>
    /\ edge_node_df_2 = <<>>
    /\ cm = CmIdle
    /\ ch = ChIdle
    /\ hy = HyIdle
    /\ sp = SpIdle
    /\ mn = MnIdle
    /\ sv = SvIdle
    /\ wk = WkIdle
    /\ rp = RpIdle
    /\ printed = {}
    /\ \E pipe_catalog \in Catalogs :
          \/ \E mass_flow_df \in [1 .. NumPipes -> [1 .. NumRows -> PipeFlows]] :
                 fc = FcCall(TRUE, mass_flow_df, [p \in 1 .. NumPipes |-> GivenDN], pipe_catalog)
          \/ \E edge_df \in [1 .. NumPipes -> EdgeDN], flow \in PipeFlows :
                 fc = FcCall(FALSE, [p \in 1 .. NumPipes |-> [r \in 1 .. NumRows |-> flow]],
                             edge_df, pipe_catalog)

NextPipes ==
    \/ AssignSizedPipe
    \/ AssignGivenPipe
    \/ AssignReturn
    \/ AssignAgain

SpecPipes == InitPipes /\ [][NextPipes]_vars

----------------------------------------------------------------------------
(* Claims about assign_pipes_to_edges.                                     *)

\* the largest absolute flow of pipe p
MaxAbsFlow(p) ==
    CHOOSE x \in {FAbs(fc.mass_flow_df[p][r]) : r \in 1 .. NumRows} :
        \A r \in 1 .. NumRows : FAbs(fc.mass_flow_df[p][r]) <= x

\* the records of the catalog that can carry the flow x
Qualifying(x) == {i \in DOMAIN fc.pipe_catalog : fc.pipe_catalog[i].mdot_max_kgs >= x}

\* C16: in sizing mode every pipe gets the first record of the catalog, in
\* catalog order, whose largest rated flow is at least the pipe's largest
\* absolute flow; when no record qualifies it gets the last record and a
\* sizing warning is printed for that pipe.
C16_FirstSufficientRecord ==
    (fc.pc = "return" /\ fc.set_diameter) =>
        \A p \in 1 .. NumPipes :
            LET Q == Qualifying(MaxAbsFlow(p))
            IN  IF Q # {}
                THEN /\ fc.returned[p] = fc.pipe_catalog[CHOOSE i \in Q : \A j \in Q : i <= j]
                     /\ p \notin fc.warned
                ELSE /\ fc.returned[p] = fc.pipe_catalog[Len(fc.pipe_catalog)]
                     /\ p \in fc.warned
                     /\ "requires a bigger pipe than provided in the database." \in printed

\* sizing mode returned with a pipe that took the first record, a smaller
\* one behind it, and a pipe too large for the catalog
C16_SizedWithWarning ==
    /\ fc.pc = "return" /\ fc.set_diameter
    /\ fc.warned = {2}
    /\ Len(fc.pipe_catalog) = 2
    /\ fc.pipe_catalog[1].mdot_max_kgs > fc.pipe_catalog[2].mdot_max_kgs
    /\ fc.returned[1] = fc.pipe_catalog[1]
    /\ fc.returned[2] = fc.pipe_catalog[2]

----------------------------------------------------------------------------
(* C17: with set_diameter false, assign_pipes_to_edges raises at the first *)
(* pipe whose Pipe_DN is in no record of the catalog, and then returns     *)
(* nothing; when it returns, every pipe has a record in the catalog and    *)
(* carries the record of its own Pipe_DN, whatever the flows are.          *)
Matched(p) == \E i \in DOMAIN fc.pipe_catalog : fc.pipe_catalog[i].Pipe_DN = fc.edge_df[p]

RecordOf(p) == fc.pipe_catalog[CHOOSE i \in DOMAIN fc.pipe_catalog :
                                   fc.pipe_catalog[i].Pipe_DN = fc.edge_df[p]]

C17_GivenDiametersMatchOrRaise ==
    /\ fc.pc = "raised" =>
           /\ ~fc.set_diameter
           /\ ~Matched(fc.pipe)
           /\ \A p \in 1 .. fc.pipe - 1 : Matched(p)
           /\ fc.returned = <<>>
    /\ (fc.pc = "return" /\ ~fc.set_diameter) =>
           /\ \A p \in 1 .. NumPipes : Matched(p)
           /\ Len(fc.returned) = NumPipes
           /\ \A p \in 1 .. NumPipes : fc.returned[p] = RecordOf(p)

\* the second pipe has a diameter the catalog lacks: the first pipe was given
\* its record, a record too small for its flow, and the call raised
C17_RaisedAtSecondPipe ==
    /\ fc.pc = "raised"
    /\ fc.pipe = 2
    /\ Len(fc.pipe_properties_df) = 1
    /\ fc.pipe_properties_df[1].Pipe_DN = fc.edge_df[1]
    /\ MaxAbsFlow(1) > fc.pipe_properties_df[1].mdot_max_kgs
    /\ fc.returned = <<>>

----------------------------------------------------------------------------
(* Claims about the minimum edge flow iteration.                           *)

\* solve_network_temperatures is inside a while loop of line 1199 or 1283
InSubIteration ==
    sv.pc \in {"min1", "min1_solving", "min1_walking",
               "min2", "min2_solving", "min2_walking", "changing2"}

\* edge_mass_flow_iteration has returned to the loop that called it
WkReturned == wk.pc = "return" /\ sv.pc \in {"min1_walking", "min2_walking"}

\* a while loop makes at most 31 calls; a call that found a pipe below the
\* minimum returns a counter at least one above the one it was given; a
\* counter above 30 comes back with the flag up and the message printed
CounterBoundsCalls ==
    /\ InSubIteration => sv.calls <= MinIterationCeiling + 1
    /\ (WkReturned /\ wk.low) => wk.min_iteration >= sv.min_iteration + 1
    /\ (WkReturned /\ wk.min_iteration > MinIterationCeiling) =>
           /\ wk.min_edge_flow_flag
           /\ "Stopped minimum edge mass flow iterations at: " \in printed

\* C18: each minimum edge flow sub-iteration ends after at most 31 calls
\* of edge_mass_flow_iteration: the counter grows by at least one on every
\* call that finds a pipe below the minimum flow, a counter above 30 makes
\* the function report the flows as acceptable and print the stop message,
\* and a while loop that was entered is left.
C18_SubIterationEnds ==
    /\ []CounterBoundsCalls
    /\ InSubIteration ~> ~InSubIteration

----------------------------------------------------------------------------
(* Claims about a time step without demand.                                *)

\* no building asks for flow in the time step
ZeroDemand == \A i \in DOMAIN sv.solved_for : sv.solved_for[i] = 0

----------------------------------------------------------------------------
(* get_thermal_network_from_shapefile (lines 2210-2325): the first matrix, *)
(* the virtual flows, the correction of the pipe directions and the count  *)
(* of the nodes without incoming pipe.  The matrix is edge_node_df, the    *)
(* frame is fc; fc.start_node and fc.end_node are the pipes as the files   *)
(* hold them, fc.edge_df is the frame of pipes the function turns.         *)

\* lines 2280-2290: 1 at every consumer, - total_flow / number_of_plants at
\* every plant (a division of integers), 0 elsewhere
NodeMassFlows(types) ==
    LET total_flow == Cardinality({i \in DOMAIN types : types[i] = "CONSUMER"})
        number_of_plants == Cardinality({i \in DOMAIN types : types[i] = "PLANT"})
    IN  [i \in DOMAIN types |->
            IF types[i] = "CONSUMER" THEN 1
            ELSE IF types[i] = "PLANT" THEN (0 - total_flow) \div number_of_plants
            ELSE 0]

\* lines 2298-2300: a node that feeds the network has a pipe coming in, or a
\* node that does not has none
NeedsTurn(z, flows, i) ==
    \/ flows[i] < 0 /\ RowMax(z[i]) > 0
    \/ flows[i] >= 0 /\ RowMax(z[i]) <= 0

\* line 2301: np.nonzero(edge_node_df.iloc[i])[0]
NonzeroPipes(z, i) == {j \in MatEdges(z) : z[i][j] # 0}

\* lines 2305-2307: start and end node of pipe j exchanged
TurnPipe(edge_df, j) ==
    [start_node |-> [edge_df.start_node EXCEPT ![j] = edge_df.end_node[j]],
     end_node |-> [edge_df.end_node EXCEPT ![j] = edge_df.start_node[j]]]

\* lines 2314-2317: the nodes without a pipe coming in
NoIncoming(z) == {i \in MatNodes(z) : \A j \in MatEdges(z) : z[i][j] # 1}

\* lines 2244-2293: the matrix built, the virtual flows set and every node
\* marked as changed
ShapeRead ==
    /\ fc.pc = "read"
    /\ edge_node_df' = ReadEdgeNodeMatrix(fc.list_nodes, fc.start_node, fc.end_node)
    /\ fc' = [fc EXCEPT !.edge_df = [start_node |-> fc.start_node, end_node |-> fc.end_node],
                        !.node_mass_flows_df = NodeMassFlows(fc.types),
                        !.number_of_plants =
                            Cardinality({i \in DOMAIN fc.types : fc.types[i] = "PLANT"}),
                        !.changed = [i \in DOMAIN fc.list_nodes |-> TRUE],
                        !.i = 1,
                        !.pc = "correct"]
    /\ UNCHANGED <<net, network_type, edge_node_df_2, cm, ch, hy, sp, mn, sv, wk, rp, printed>>

\* lines 2295-2310: one node of `for i in range(..)`; the pipe to turn is
\* random.choice among the pipes at the node
ShapeCorrectNode ==
    /\ fc.pc = "correct"
    /\ fc.i <= Len(fc.list_nodes)
    /\ IF NeedsTurn(edge_node_df, fc.node_mass_flows_df, fc.i)
       THEN \E j \in NonzeroPipes(edge_node_df, fc.i) :
               /\ edge_node_df' = FlipColumns(edge_node_df, {j})
               /\ fc' = [fc EXCEPT !.edge_df = TurnPipe(@, j),
                                   !.changed[fc.i] = TRUE,
                                   !.i = @ + 1]
       ELSE /\ fc' = [fc EXCEPT !.changed[fc.i] = FALSE, !.i = @ + 1]
            /\ UNCHANGED edge_node_df
    /\ UNCHANGED <<net, network_type, edge_node_df_2, cm, ch, hy, sp, mn, sv, wk, rp, printed>>

\* line 2294: `while any(changed)` at the end of a round over the nodes
ShapeCorrectAgain ==
    /\ fc.pc = "correct"
    /\ fc.i > Len(fc.list_nodes)
    /\ fc' = IF \E k \in DOMAIN fc.changed : fc.changed[k]
             THEN [fc EXCEPT !.i = 1]
             ELSE [fc EXCEPT !.pc = "count"]
    /\ UNCHANGED <<net, network_type, edge_node_df, edge_node_df_2, cm, ch, hy, sp, mn, sv, wk, rp, printed>>

\* lines 2312-2325: the nodes without incoming pipe counted; ValueError
\* when they are not as many as the plants, else the return
ShapeCount ==
    /\ fc.pc = "count"
    /\ LET plant_counter == Cardinality(NoIncoming(edge_node_df))
       IN  fc' = [fc EXCEPT !.plant_counter = plant_counter,
                            !.pc = IF fc.number_of_plants # plant_counter
                                   THEN "raised" ELSE "return"]
    /\ UNCHANGED <<net, network_type, edge_node_df, edge_node_df_2, cm, ch, hy, sp, mn, sv, wk, rp, printed>>

----------------------------------------------------------------------------
(* The shapefile specification: get_thermal_network_from_shapefile on the  *)
(* networks of up to three nodes and three pipes, every pipe drawn between *)
(* two different nodes in either direction, every node at a pipe, the      *)
(* nodes of any type.                                                      *)

ShapeMaxNodes == 3

ShapeMaxPipes == 3

\* the pipes a shapefile may hold: from one node to another
DrawnPipes(nn) == {p \in (1 .. nn) \X (1 .. nn) : p[1] # p[2]}

InitShape ==
    /\ net = 0
    /\ network_type = "DH"
    /\ edge_node_df = <<>>
    /\ edge_node_df_2 = <<>>
    /\ cm = CmIdle
    /\ ch = ChIdle
    /\ hy = HyIdle
    /\ sp = SpIdle
    /\ mn = MnIdle
    /\ sv = SvIdle
    /\ wk = WkIdle
    /\ rp = RpIdle
    /\ printed = {}
    /\ \E nn \in 2 .. ShapeMaxNodes, ne \in 1 .. ShapeMaxPipes :
          \E pipes \in [1 .. ne -> DrawnPipes(nn)],
             types \in [1 .. nn -> {"PLANT", "CONSUMER", "NONE"}] :
              /\ \A i \in 1 .. nn : \E j \in 1 .. ne : i = pipes[j][1] \/ i = pipes[j][2]
              /\ fc = [pc |-> "read", list_nodes |-> [i \in 1 .. nn |-> i], types |-> types,
                       start_node |-> [j \in 1 .. ne |-> pipes[j][1]],
                       end_node |-> [j \in 1 .. ne |-> pipes[j][2]],
                       edge_df |-> <<>>, node_mass_flows_df |-> <<>>, number_of_plants |-> 0,
                       changed |-> <<>>, i |-> 0, plant_counter |-> 0]

NextShape ==
    \/ ShapeRead
    \/ ShapeCorrectNode
    \/ ShapeCorrectAgain
    \/ ShapeCount

SpecShape == InitShape /\ [][NextShape]_vars

\* the function is sequential: while it has a next step it takes one; the
\* pipe random.choice picks is left open
FairSpecShape == SpecShape /\ WF_vars(NextShape)

----------------------------------------------------------------------------
(* Claims about the network read from shapefiles.                          *)

\* the first edge-node matrix, of the pipes as the files hold them
FirstMatrix == ReadEdgeNodeMatrix(fc.list_nodes, fc.start_node, fc.end_node)

\* the nodes the files declare as plants
DeclaredPlants == {i \in DOMAIN fc.types : fc.types[i] = "PLANT"}

\* the network of the files has more nodes without incoming pipe than
\* plants
MoreSourcesThanPlants ==
    Cardinality(NoIncoming(FirstMatrix)) > Cardinality(DeclaredPlants)

\* C20: a network read from shapefiles that has more nodes without incoming
\* pipe than declared PLANT nodes, such as one with a dead end that is
\* neither plant nor consumer, aborts with a fatal error: the function does
\* not return for it.
C20_SurplusSourcesAbort ==
    (fc.pc = "return") => ~MoreSourcesThanPlants

----------------------------------------------------------------------------
(* Claims about the node demand.                                           *)

\* calc_mass_flow_edges has just been called with the node demand of the
\* substation flows hy.mdot
DemandWritten == hy.pc = "solving" /\ cm.pc = "begin"

\* C21: the node demand write_substation_values_to_nodes_df builds sums to
\* zero over all nodes: every consumer carries the flow of its substation,
\* every junction 0, and each of the P plants minus 1/P of the total flow of
\* the consumers.
C21_NodeDemandSumsToZero ==
    DemandWritten =>
        LET total == SumSet(hy.mdot, ConsumersOf(net))
            P == Cardinality(PlantsOf(net))
        IN  /\ SumSet(cm.b, NodesOf(net)) = 0
            /\ \A i \in NodesOf(net) :
                  /\ TypeOf(net)[i] = "CONSUMER" => cm.b[i] = hy.mdot[i]
                  /\ TypeOf(net)[i] = "NONE" => cm.b[i] = 0
                  /\ TypeOf(net)[i] = "PLANT" => P * cm.b[i] = 0 - total

\* two plants share the flow of a consumer
C21_TwoPlantsShare ==
    /\ DemandWritten
    /\ Cardinality(PlantsOf(net)) = 2
    /\ \E i \in ConsumersOf(net) : cm.b[i] = 250024
    /\ \A i \in PlantsOf(net) : cm.b[i] = -125012

----------------------------------------------------------------------------
(* Claims about a repeated sizing.                                         *)

----------------------------------------------------------------------------
(* Claims about the rows of results.                                       *)

\* C23: thermal_network_main holds exactly one row per solved time step in
\* each of its lists of results (node supply and return temperatures, pipe
\* heat losses, plant heat requirement, node pressures, system pressure
\* loss), row t being the result of time step t, in increasing order; when
\* the results are written every list has a row for every time step.
C23_OneRowPerTimestep ==
    mn.pc \in {"loop", "solving", "done"} =>
        \A l \in ResultLists :
            /\ Len(mn.lists[l]) = mn.t
            /\ \A r \in 1 .. Len(mn.lists[l]) : mn.lists[l][r] = r - 1
            /\ mn.pc = "done" => Len(mn.lists[l]) = NumHours

\* the results of both hours are about to be written, one hour at least
\* having gone through the minimum flow iteration up to its ceiling
C23_AllRowsWritten ==
    /\ mn.pc = "done"
    /\ mn.lists["pressure_loss_system"] = <<0, 1>>
    /\ "Stopped minimum edge mass flow iterations at: " \in printed

----------------------------------------------------------------------------
(* Claims about the loop correction.                                       *)

\* calc_mass_flow_edges has returned the flows of a network with loops
LoopedReturned == cm.pc = "return" /\ FindLoops(Deref(cm.edge_node_df)) # <<>>

\* C24: when calc_mass_flow_edges returns after the loop correction, the
\* signed sum of the pipes' pressure losses around every loop is within
\* 5 kPa of zero: the function does not return with a sum it has found
\* above 5000 Pa.
C24_LoopPressureWithin5kPa ==
    LoopedReturned => "deviation from 0 pressure in loop" \notin printed

----------------------------------------------------------------------------
(* Claims about the return pass after a seed.                              *)

\* the return pass has guessed an inflow at least once
ReturnSeeded == rp.pc \in {"relax", "sweep", "raised", "return", "done"} /\ rp.k_rebound

\* solve_network_temperatures reaches the return pass only with flow in the
\* network (line 1168)
SomeReturnFlow == \E e \in DOMAIN rp.m_d : rp.m_d[e] # 0

\* C25: in the return pass of a looped network, once a stuck sweep has
\* seeded an unknown inflow, the traversal goes on and every later pipe
\* outlet temperature is computed by calc_t_out with the conduction
\* coefficients calc_return_temperatures received: no later call of
\* calc_t_out fails on its argument k.
C25_SeededReturnPassGoesOn ==
    (ReturnSeeded /\ SomeReturnFlow) => rp.error # "TypeError"

----------------------------------------------------------------------------
(* Claims about the flows solve_network_temperatures ends with.            *)

\* matrix . flows is the demand b at every node, up to the rounding of the
\* flows to five decimals; rows with a NaN flow are left out
BalancedAgainst(z, m, b) ==
    \A i \in MatNodes(z) :
        \/ IsNaN(Dot(z, m, i))
        \/ BalancedWithin(z, m, b, i, RoundingError * Degree(z, i))

\* C26: the pipe flows solve_network_temperatures returns for a time step
\* (edge_mass_flow_df_2_kgs, along edge_node_df_2) and the flows it passes
\* to the return pass (edge_mass_flow_df_t, along edge_node_df) balance the
\* substation demand of the last iteration, mass_flow_substations_nodes_df_2,
\* at every node, also when the last change_to_edge_node_matrix_t turned a
\* pipe and solved the flows again.
C26_FinalFlowsBalanceFinalDemand ==
    sv.pc = "return_pass" =>
        /\ BalancedAgainst(edge_node_df, sv.edge_mass_flow_df_t,
                           sv.mass_flow_substations_nodes_df_2)
        /\ BalancedAgainst(edge_node_df_2, sv.edge_mass_flow_df_2_kgs,
                           sv.mass_flow_substations_nodes_df_2)

----------------------------------------------------------------------------
(* Claims about the steps of the loop correction.                          *)

\* an iteration of the while loop of line 291 has run
LoopCorrectionStep == cm.pc = "while" /\ cm'.iterations = cm.iterations + 1

\* C27: an iteration of the loop correction, which adds delta_m times the
\* traversal sign to every pipe of each loop, leaves incidence_matrix . flow
\* as it was at every node, so the nodal balance of the initial solution is
\* kept through all the iterations.
C27_LoopCorrectionKeepsBalance ==
    [][LoopCorrectionStep =>
          \A i \in MatNodes(Deref(cm.edge_node_df)) :
              Dot(Deref(cm.edge_node_df), cm'.mass_flow_edge, i)
                  = Dot(Deref(cm.edge_node_df), cm.mass_flow_edge, i)]_vars

----------------------------------------------------------------------------
(* Claims about the search for the plant temperature.                      *)

\* the trial temperature has moved away from the first guess by this much,
\* up for heating and down for cooling
SearchDrift(f) ==
    IF network_type = "DH" THEN f.t_plant_sup - f.t_plant_sup_0
    ELSE f.t_plant_sup_0 - f.t_plant_sup

\* the passes the drift bound allows: 60 K / 0.1 K and 10 K / 0.1 K
MaxSearchPasses ==
    IF network_type = "DH" THEN DriftBoundDH \div Kelvin01 ELSE DriftBoundDC \div Kelvin01

\* the search has decided for another trial temperature
SearchReiterates == sp.pc = "search" /\ sp'.pc = "relax"

\* C28: every re-iteration of the search for the plant temperature moves
\* the trial temperature by at least 0.1 K, up for heating and down for
\* cooling, so the number of re-iterations is bounded: at most 600 raises
\* for heating and 100 reductions for cooling.
C28_SearchMovesOneWay ==
    /\ [][SearchReiterates =>
             /\ SearchDrift(sp') >= SearchDrift(sp) + Kelvin01
             /\ sp'.iteration = sp.iteration + 1]_vars
    /\ [](SupplyRunning =>
             /\ sp.iteration * Kelvin01 <= SearchDrift(sp)
             /\ sp.iteration <= MaxSearchPasses)

\* a search has ended after more than one change of the trial temperature
C28_SearchEndedAfterChanges ==
    sp.pc = "return" /\ sp.iteration >= 2

----------------------------------------------------------------------------
(* Claims about the re-solve of change_to_edge_node_matrix_t.              *)

\* the call of line 565 has returned for a network without loops
TreeResolved ==
    /\ ch.pc = "solving"
    /\ ch'.pc = "while"
    /\ FindLoops(Deref(ch.edge_node_df)) = <<>>

\* C29: for a tree network change_to_edge_node_matrix_t ends after at most
\* one re-solve: once the columns of the pipes with a negative flow are
\* negated, the flow solved again for every pipe is the absolute value of
\* its flow before the flip, so no flow is negative and the loop of line
\* 560 is left.
C29_TreeResolveGivesAbsoluteFlows ==
    [][TreeResolved =>
          /\ ch'.edge_mass_flow = ch.edge_mass_flow
          /\ ~FLt(FMin(ch'.edge_mass_flow), 0)]_vars

----------------------------------------------------------------------------
(* Claims about the correction of the pipe directions.                     *)

\* the network of the files is connected and has a plant and a consumer
ConnectedWithPlantAndConsumer ==
    /\ Reach(FirstMatrix, {}, {1}) = MatNodes(FirstMatrix)
    /\ \E i \in DOMAIN fc.types : fc.types[i] = "PLANT"
    /\ \E i \in DOMAIN fc.types : fc.types[i] = "CONSUMER"

\* the loop of line 2294 has been left
CorrectionEnded == fc.pc \in {"count", "raised", "return"}

\* no pipe comes into a plant, and one at least into every other node
PlantsFeedOthersAreFed ==
    \A i \in MatNodes(edge_node_df) :
        IF fc.types[i] = "PLANT" THEN RowMax(edge_node_df[i]) <= 0
        ELSE RowMax(edge_node_df[i]) > 0

\* C30: for every connected network with at least one plant and one
\* consumer the loop that corrects the pipe directions ends, whatever pipes
\* random.choice picks, and when it has ended no pipe comes into a PLANT
\* node and at least one pipe comes into every other node.
C30_DirectionCorrectionEnds ==
    /\ [](ConnectedWithPlantAndConsumer /\ CorrectionEnded => PlantsFeedOthersAreFed)
    /\ (ConnectedWithPlantAndConsumer => <>CorrectionEnded)

====
